---- MODULE Spec2Model ----
(***************************************************************************)
(* Model of the landing-page analyzer (src/app.py): the JSON recovery of   *)
(* _extract_json, the per-page pipeline of                                 *)
(* get_multimodal_analysis_from_gemini and the batch loop of               *)
(* analyze_landing_pages.                                                  *)
(*                                                                         *)
(* Text is a sequence of tokens.  A token is one character that the code   *)
(* scans for (a brace, a bracket, a comma, a colon, a double quote, a      *)
(* space, a newline, a hash, a slash, a dot, a dash), the run of three     *)
(* backticks, or a run of letters or digits (an atom) that no scan of the  *)
(* code looks into.  A Python str is such a sequence; a Python dict is a   *)
(* function from keys (token sequences) to tagged values.                  *)
(***************************************************************************)
EXTENDS Integers, Sequences, FiniteSets, TLC

LBrace == "{"
RBrace == "}"
LBracket == "["
RBracket == "]"
Comma == ","
Colon == ":"
Quote == "\""
Space == " "
Newline == "\n"
Hash == "#"
Fence == "<fence>"
JsonTag == "json"

\* str.isspace for one token
IsSpace(tok) == tok \in {Space, Newline}

\* digit atoms (the JSON number literals of the replies)
NumberAtoms == {"1", "2"}

\* s[i-1:j] of Python, on 1-based inclusive token positions
Slice(s, i, j) == IF i > j THEN << >> ELSE SubSeq(s, i, j)

\* the position of the first non-whitespace token at or after i (Len(s)+1 if none)
RECURSIVE SkipWs(_, _)
SkipWs(s, i) ==
  IF i > Len(s) THEN Len(s) + 1
  ELSE IF IsSpace(s[i]) THEN SkipWs(s, i + 1) ELSE i

\* the position of the last non-whitespace token at or before j (0 if none)
RECURSIVE SkipWsBack(_, _)
SkipWsBack(s, j) ==
  IF j < 1 THEN 0
  ELSE IF IsSpace(s[j]) THEN SkipWsBack(s, j - 1) ELSE j

\* str.strip()
Strip(s) == Slice(s, SkipWs(s, 1), SkipWsBack(s, Len(s)))

\* str.find(tok, from i): position of the first tok at or after i, 0 if none
RECURSIVE FindFrom(_, _, _)
FindFrom(s, tok, i) ==
  IF i > Len(s) THEN 0
  ELSE IF s[i] = tok THEN i ELSE FindFrom(s, tok, i + 1)

\* str.rfind(tok): position of the last tok at or before j, 0 if none
RECURSIVE RFindFrom(_, _, _)
RFindFrom(s, tok, j) ==
  IF j < 1 THEN 0
  ELSE IF s[j] = tok THEN j ELSE RFindFrom(s, tok, j - 1)

\* str.find of the json fence from i: a fence immediately followed by the json tag
RECURSIVE FindJsonFence(_, _)
FindJsonFence(s, i) ==
  IF i + 1 > Len(s) THEN 0
  ELSE IF s[i] = Fence /\ s[i + 1] = JsonTag THEN i ELSE FindJsonFence(s, i + 1)

\* needle in haystack, for token sequences
Contains(hay, needle) ==
  \E i \in 1..(Len(hay) + 1) :
      /\ i + Len(needle) - 1 <= Len(hay)
      /\ Slice(hay, i, i + Len(needle) - 1) = needle

(***************************************************************************)
(* Values of json.loads.                                                   *)
(***************************************************************************)
StrV(s) == [t |-> "str", v |-> s]
NumV(tok) == [t |-> "num", v |-> <<tok>>]
ListV(l) == [t |-> "list", v |-> l]
DictV(d) == [t |-> "dict", v |-> d]
IntV(n) == [t |-> "int", v |-> n]
NoValue == [t |-> "none", v |-> << >>]

EmptyDict == << >>

\* d[k] = val of Python, on a dict held as a function
DictSet(d, k, val) ==
  [x \in (DOMAIN d) \cup {k} |-> IF x = k THEN val ELSE d[x]]

\* isinstance(d.get(k), wanted type)
GetIs(d, k, tag) == k \in DOMAIN d /\ d[k].t = tag

ParseOk(val, pos) == [ok |-> TRUE, val |-> val, pos |-> pos, msg |-> ""]
ParseErr(msg, pos) == [ok |-> FALSE, val |-> NoValue, pos |-> pos, msg |-> msg]

\* json.decoder.scanstring (strict): from the opening quote at i to the next
\* quote; a raw newline inside the literal is an invalid control character
ScanString(s, i) ==
  LET close == FindFrom(s, Quote, i + 1)
      nl == FindFrom(s, Newline, i + 1)
  IN IF nl # 0 /\ (close = 0 \/ nl < close)
       THEN ParseErr("Invalid control character at", nl)
     ELSE IF close = 0
       THEN ParseErr("Unterminated string starting at", i)
     ELSE ParseOk(StrV(Slice(s, i + 1, close - 1)), close + 1)

RECURSIVE ScanOnce(_, _), ScanMembers(_, _, _), ScanElements(_, _, _)

\* json.scanner.py_make_scanner._scan_once: one value starting exactly at i
ScanOnce(s, i) ==
  IF i > Len(s) THEN ParseErr("Expecting value", i)
  ELSE IF s[i] = Quote THEN ScanString(s, i)
  ELSE IF s[i] = LBrace THEN
    LET j == SkipWs(s, i + 1)
    IN IF j <= Len(s) /\ s[j] = RBrace THEN ParseOk(DictV(EmptyDict), j + 1)
       ELSE ScanMembers(s, j, EmptyDict)
  ELSE IF s[i] = LBracket THEN
    LET j == SkipWs(s, i + 1)
    IN IF j <= Len(s) /\ s[j] = RBracket THEN ParseOk(ListV(<< >>), j + 1)
       ELSE ScanElements(s, j, << >>)
  ELSE IF s[i] \in NumberAtoms THEN ParseOk(NumV(s[i]), i + 1)
  ELSE ParseErr("Expecting value", i)

\* json.decoder.JSONObject: the members loop, i at the start of a key
ScanMembers(s, i, acc) ==
  IF i > Len(s) \/ s[i] # Quote
    THEN ParseErr("Expecting property name enclosed in double quotes", i)
  ELSE
    LET key == ScanString(s, i)
    IN IF ~key.ok THEN key
       ELSE
         LET c == SkipWs(s, key.pos)
         IN IF c > Len(s) \/ s[c] # Colon
              THEN ParseErr("Expecting ':' delimiter", c)
            ELSE
              LET val == ScanOnce(s, SkipWs(s, c + 1))
              IN IF ~val.ok THEN val
                 ELSE
                   LET acc2 == DictSet(acc, key.val.v, val.val)
                       d == SkipWs(s, val.pos)
                   IN IF d <= Len(s) /\ s[d] = RBrace
                        THEN ParseOk(DictV(acc2), d + 1)
                      ELSE IF d > Len(s) \/ s[d] # Comma
                        THEN ParseErr("Expecting ',' delimiter", d)
                      ELSE ScanMembers(s, SkipWs(s, d + 1), acc2)

\* json.decoder.JSONArray: the elements loop, i at the start of a value
ScanElements(s, i, acc) ==
  LET val == ScanOnce(s, i)
  IN IF ~val.ok THEN val
     ELSE
       LET acc2 == Append(acc, val.val)
           d == SkipWs(s, val.pos)
       IN IF d <= Len(s) /\ s[d] = RBracket
            THEN ParseOk(ListV(acc2), d + 1)
          ELSE IF d > Len(s) \/ s[d] # Comma
            THEN ParseErr("Expecting ',' delimiter", d)
          ELSE ScanElements(s, SkipWs(s, d + 1), acc2)

\* json.loads: one value with optional whitespace around it, nothing else;
\* ok = FALSE stands for json.JSONDecodeError with message msg
JsonLoads(s) ==
  LET r == ScanOnce(s, SkipWs(s, 1))
  IN IF ~r.ok THEN r
     ELSE IF SkipWs(s, r.pos) <= Len(s) THEN ParseErr("Extra data", SkipWs(s, r.pos))
     ELSE r

(***************************************************************************)
(* _extract_json (src/app.py 201-247): the four recovery strategies.       *)
(***************************************************************************)
NoMatch == [found |-> FALSE, lo |-> 0, hi |-> 0]
Match(lo, hi) == [found |-> TRUE, lo |-> lo, hi |-> hi]

\* the first closing brace at or after k that is followed by optional
\* whitespace and a fence: where the lazy .*? of the fenced pattern stops
RECURSIVE FencedClose(_, _)
FencedClose(s, k) ==
  LET c == FindFrom(s, RBrace, k)
  IN IF c = 0 THEN 0
     ELSE IF SkipWs(s, c + 1) <= Len(s) /\ s[SkipWs(s, c + 1)] = Fence THEN c
     ELSE FencedClose(s, c + 1)

\* re.search of the fenced pattern (json fence, whitespace, a brace, lazily
\* anything, a brace, whitespace, a fence; DOTALL): the span of group(1) of
\* the leftmost match
RECURSIVE FencedSearch(_, _)
FencedSearch(s, from) ==
  LET i == FindJsonFence(s, from)
  IN IF i = 0 THEN NoMatch
     ELSE
       LET j == SkipWs(s, i + 2)
           k == IF j <= Len(s) /\ s[j] = LBrace THEN FencedClose(s, j + 1) ELSE 0
       IN IF k # 0 THEN Match(j, k) ELSE FencedSearch(s, i + 1)

\* BracketSpan that stops at the first closing brace
BracketSpan_FirstClose(s) ==
  LET start == FindFrom(s, LBrace, 1)
      end == FindFrom(s, RBrace, 1)
  IN IF start # 0 /\ end # 0 /\ end > start THEN Match(start, end) ELSE NoMatch

\* text.find LBrace and text.rfind RBrace, with end > start
BracketSpan(s) ==
  LET start == FindFrom(s, LBrace, 1)
      end == RFindFrom(s, RBrace, Len(s))
  IN IF start # 0 /\ end # 0 /\ end > start THEN Match(start, end) ELSE NoMatch

\* the position of the first brace (of either kind) at or after i, 0 if none
RECURSIVE NextBrace(_, _)
NextBrace(s, i) ==
  IF i > Len(s) THEN 0
  ELSE IF s[i] \in {LBrace, RBrace} THEN i ELSE NextBrace(s, i + 1)

\* the balanced-brace pattern after its opening brace: brace-free text, then
\* any number of one-level groups each followed by brace-free text, then the
\* closing brace; the position of that closing brace, 0 if the pattern fails
RECURSIVE BalancedTail(_, _)
BalancedTail(s, i) ==
  LET b == NextBrace(s, i)
  IN IF b = 0 THEN 0
     ELSE IF s[b] = RBrace THEN b
     ELSE
       LET c == NextBrace(s, b + 1)
       IN IF c = 0 \/ s[c] # RBrace THEN 0 ELSE BalancedTail(s, c + 1)

\* re.findall of the balanced-brace pattern: the non-overlapping matches,
\* left to right
RECURSIVE FindAllBalanced(_, _)
FindAllBalanced(s, from) ==
  LET p == FindFrom(s, LBrace, from)
  IN IF p = 0 THEN << >>
     ELSE
       LET e == BalancedTail(s, p + 1)
       IN IF e # 0 THEN <<Slice(s, p, e)>> \o FindAllBalanced(s, e + 1)
          ELSE FindAllBalanced(s, p + 1)

\* the loop over the candidates: the first one that json.loads accepts
RECURSIVE FirstParsing(_, _)
FirstParsing(cands, i) ==
  IF i > Len(cands) THEN ParseErr("no candidate", 0)
  ELSE IF JsonLoads(cands[i]).ok THEN JsonLoads(cands[i])
  ELSE FirstParsing(cands, i + 1)

\* str.split on the newline
RECURSIVE SplitLines(_)
SplitLines(s) ==
  LET n == FindFrom(s, Newline, 1)
  IN IF n = 0 THEN <<s>>
     ELSE <<Slice(s, 1, n - 1)>> \o SplitLines(Slice(s, n + 1, Len(s)))

NoPair == [found |-> FALSE, key |-> << >>, val |-> << >>]

\* re.search of the pair pattern in one line: a quoted non-empty key, a
\* colon, whitespace, a quoted value; the leftmost match
RECURSIVE KeyMatch(_, _)
KeyMatch(line, from) ==
  LET p == FindFrom(line, Quote, from)
      q == IF p = 0 THEN 0 ELSE FindFrom(line, Quote, p + 1)
  IN IF p = 0 \/ q = 0 THEN NoPair
     ELSE
       LET r == SkipWs(line, q + 2)
           t == IF r <= Len(line) /\ line[r] = Quote THEN FindFrom(line, Quote, r + 1) ELSE 0
       IN IF q >= p + 2 /\ q + 1 <= Len(line) /\ line[q + 1] = Colon /\ t # 0
            THEN [found |-> TRUE, key |-> Slice(line, p + 1, q - 1),
                  val |-> Slice(line, r + 1, t - 1)]
          ELSE KeyMatch(line, p + 1)

\* the line loop of the key-value reconstruction
RECURSIVE KeyValuePairs(_, _, _)
KeyValuePairs(lines, i, json_data) ==
  IF i > Len(lines) THEN json_data
  ELSE
    LET line == lines[i]
        stripped == Strip(line)
        eligible == /\ FindFrom(line, Colon, 1) # 0
                    /\ ~(Len(stripped) > 0 /\ stripped[1] = Hash)
        m == IF eligible THEN KeyMatch(line, 1) ELSE NoPair
    IN KeyValuePairs(lines, i + 1,
         IF m.found THEN DictSet(json_data, m.key, StrV(m.val)) ELSE json_data)

\* the number of characters a token stands for
TokLen(tok) ==
  CASE tok = Fence -> 3
    [] tok = JsonTag -> 4
    [] tok = "Platform" -> 8
    [] tok = "URL" -> 3
    [] tok = "error" -> 5
    [] tok = "Above_Fold_Sections" -> 19
    [] tok = "Below_Fold_Sections" -> 19
    [] tok = "Section_Details" -> 15
    [] tok = "w{480}" -> 480
    [] OTHER -> 1

SNIPPET_LEN == 500

\* s[:n] counted in characters; the cut falls on a token boundary
RECURSIVE TakeChars(_, _)
TakeChars(s, n) ==
  IF Len(s) = 0 \/ TokLen(s[1]) > n THEN << >>
  ELSE <<s[1]>> \o TakeChars(Tail(s), n - TokLen(s[1]))

\* a snippet that is not cut
Snippet_Uncut(text) ==
  LET st == Strip(text)
  IN [i \in 1..Len(st) |-> IF st[i] = Newline THEN Space ELSE st[i]]

\* text.strip().replace(newline, space)[:500]
Snippet(text) ==
  LET st == Strip(text)
  IN TakeChars([i \in 1..Len(st) |-> IF st[i] = Newline THEN Space ELSE st[i]], SNIPPET_LEN)

Extracted(via, val) == [ok |-> TRUE, via |-> via, val |-> val, msg |-> << >>]

\* each strategy on its own: the value it yields, ok = FALSE when it fails
FencedStrategy(text) ==
  LET m == FencedSearch(text, 1)
  IN IF m.found THEN JsonLoads(Slice(text, m.lo, m.hi)) ELSE ParseErr("no match", 0)

BracketStrategy(text) ==
  LET m == BracketSpan(text)
  IN IF m.found THEN JsonLoads(Slice(text, m.lo, m.hi)) ELSE ParseErr("no match", 0)

ScanStrategy(text) == FirstParsing(FindAllBalanced(text, 1), 1)

\* a reconstruction that also returns a dict without pairs
KeyValueStrategy_AllowEmpty(text) ==
  ParseOk(DictV(KeyValuePairs(SplitLines(text), 1, EmptyDict)), 0)

KeyValueStrategy(text) ==
  LET json_data == KeyValuePairs(SplitLines(text), 1, EmptyDict)
  IN IF DOMAIN json_data # {} THEN ParseOk(DictV(json_data), 0)
     ELSE ParseErr("no pairs", 0)

\* 245-247: the ValueError, msg its message
ExtractionFailure(text) ==
  [ok |-> FALSE, via |-> "none", val |-> NoValue,
   msg |-> <<"No valid JSON found in model response. Response snippet: ">>
             \o Snippet(text)]

\* return the value of a strategy that succeeded, else go on to the rest
ReturnOrElse(via, attempt, rest) ==
  IF attempt.ok THEN Extracted(via, attempt.val) ELSE rest

\* _extract_json with the bracket span tried before the fenced block
ExtractJson_BracketFirst(text) ==
  ReturnOrElse("bracket", BracketStrategy(text),
    ReturnOrElse("fenced", FencedStrategy(text),
      ReturnOrElse("scan", ScanStrategy(text),
        ReturnOrElse("keyvalue", KeyValueStrategy(text),
          ExtractionFailure(text)))))

\* _extract_json: ok = FALSE stands for the ValueError
ExtractJson(text) ==
  ReturnOrElse("fenced", FencedStrategy(text),
    ReturnOrElse("bracket", BracketStrategy(text),
      ReturnOrElse("scan", ScanStrategy(text),
        ReturnOrElse("keyvalue", KeyValueStrategy(text),
          ExtractionFailure(text)))))

(***************************************************************************)
(* get_multimodal_analysis_from_gemini (src/app.py 796-951).               *)
(***************************************************************************)
K(name) == <<name>>

\* ---- _prepare_image (194-199) on the size, mode and EXIF orientation of an
\* image; the pixels are not modelled
MAX_DIM == 2048

Picture(w, h, mode, orientation) ==
  [w |-> w, h |-> h, mode |-> mode, orientation |-> orientation]

Max2(a, b) == IF a >= b THEN a ELSE b
Abs(a) == IF a >= 0 THEN a ELSE 0 - a
CeilDiv(a, b) == IF a % b = 0 THEN a \div b ELSE (a \div b) + 1

\* round_aspect of Image.thumbnail for the width of a tall image: the floor or
\* the ceiling of y * w / h, whichever n has n / y nearer to w / h (the floor
\* on a tie), and at least 1
RoundWidth(w, h, y) ==
  Max2(1, IF Abs(w * y - ((w * y) \div h) * h) <= Abs(w * y - CeilDiv(w * y, h) * h)
            THEN (w * y) \div h ELSE CeilDiv(w * y, h))

\* round_aspect for the height of a wide image: the floor or the ceiling of
\* x * h / w, whichever n has x / n nearer to w / h (a floor of 0 wins), and
\* at least 1
RoundHeight(w, h, x) ==
  Max2(1, IF (x * h) \div w = 0 THEN 0
          ELSE IF Abs(w * ((x * h) \div w) - x * h) * CeilDiv(x * h, w)
                    <= Abs(w * CeilDiv(x * h, w) - x * h) * ((x * h) \div w)
            THEN (x * h) \div w ELSE CeilDiv(x * h, w))

\* pil_img.thumbnail((x, y)): never enlarges, keeps the aspect ratio
Thumbnail(img, x, y) ==
  IF x >= img.w /\ y >= img.h THEN img
  ELSE IF x * img.h >= img.w * y
    THEN [img EXCEPT !.w = RoundWidth(img.w, img.h, y), !.h = y]
    ELSE [img EXCEPT !.w = x, !.h = RoundHeight(img.w, img.h, x)]

\* pil_img.convert("RGB"): the mode changes, the size and the EXIF data stay
ConvertRGB(img) == [img EXCEPT !.mode = "RGB"]

\* ImageOps.exif_transpose: orientations 5 to 8 turn the image by a quarter
\* (width and height change places), 2 to 4 flip or turn it by a half; the
\* orientation tag is removed
ExifTranspose(img) ==
  IF img.orientation \in 5..8
    THEN [img EXCEPT !.w = img.h, !.h = img.w, !.orientation = 1]
    ELSE [img EXCEPT !.orientation = 1]

\* _prepare_image
PrepareImage(pil_img) ==
  IF pil_img.mode \in {"RGBA", "P"}
    THEN ExifTranspose(ConvertRGB(IF Max2(pil_img.w, pil_img.h) > MAX_DIM
                                    THEN Thumbnail(pil_img, MAX_DIM, MAX_DIM) ELSE pil_img))
    ELSE IF Max2(pil_img.w, pil_img.h) > MAX_DIM
           THEN Thumbnail(pil_img, MAX_DIM, MAX_DIM) ELSE pil_img
Text(phrase) == StrV(<<phrase>>)

\* ---- the prompt (802-826). A template is a sequence of tokens: plain text,
\* the replacement fields of str.format, the doubled braces, single braces.
TEXT_BUDGET == 5000

FieldName == "{provider_name}"
FieldUrl == "{url}"
FieldText == "{text_content_section}"
FieldOther == "{competitors}"
FieldJson == "{\"a\":1}"
DoubleOpen == "{{"
DoubleClose == "}}"

\* s[:n]
Take(s, n) == IF Len(s) <= n THEN s ELSE SubSeq(s, 1, n)

\* a text content section that holds the whole page text
TextSection_Uncut(page_content) ==
  <<Newline, "Text Content Preview (first 5000 chars):", Newline>>
  \o (IF Len(page_content) > 0 THEN page_content ELSE <<"No text content available">>)
  \o <<Newline>>

\* 803-806: the text content section
TextSection(page_content) ==
  <<Newline, "Text Content Preview (first 5000 chars):", Newline>>
  \o (IF Len(page_content) > 0 THEN Take(page_content, TEXT_BUDGET)
                                ELSE <<"No text content available">>)
  \o <<Newline>>

\* what str.format puts for one token of the template
FormatToken(tok, provider_name, url, section) ==
  CASE tok = FieldName -> provider_name
    [] tok = FieldUrl -> url
    [] tok = FieldText -> section
    [] tok = DoubleOpen -> <<LBrace>>
    [] tok = DoubleClose -> <<RBrace>>
    [] OTHER -> <<tok>>

\* the tokens str.format raises on: a single brace, a field it was not given
\* (a JSON object written with single braces is read as such a field)
FormatRaises(tok) == tok \in {LBrace, RBrace, FieldOther, FieldJson}

RECURSIVE FormatFrom(_, _, _, _, _)
FormatFrom(template, i, provider_name, url, section) ==
  IF i > Len(template) THEN << >>
  ELSE FormatToken(template[i], provider_name, url, section)
         \o FormatFrom(template, i + 1, provider_name, url, section)

\* the exception of str.format for the first offending token
FormatError(tok) ==
  CASE tok = LBrace -> [raised |-> TRUE, text |-> << >>, etype |-> "ValueError",
                        err |-> <<"expected '}' before end of string">>]
    [] tok = RBrace -> [raised |-> TRUE, text |-> << >>, etype |-> "ValueError",
                        err |-> <<"Single '}' encountered in format string">>]
    [] tok = FieldJson -> [raised |-> TRUE, text |-> << >>, etype |-> "KeyError",
                           err |-> <<"'\"a\"'">>]
    [] OTHER -> [raised |-> TRUE, text |-> << >>, etype |-> "KeyError",
                 err |-> <<"'competitors'">>]

\* template.format(provider_name=..., url=..., text_content_section=...)
Format(template, provider_name, url, section) ==
  IF \E i \in 1..Len(template) : FormatRaises(template[i])
    THEN FormatError(template[CHOOSE i \in 1..Len(template) :
                                /\ FormatRaises(template[i])
                                /\ \A j \in 1..(i - 1) : ~FormatRaises(template[j])])
    ELSE [raised |-> FALSE, text |-> FormatFrom(template, 1, provider_name, url, section),
          etype |-> "", err |-> << >>]

\* DEFAULT_STRUCTURED_PROMPT_TEMPLATE (138-192), its fields and braces in place
DEFAULT_STRUCTURED_PROMPT_TEMPLATE ==
  <<"Analyze this landing page screenshot for ", FieldName, " (", FieldUrl, ").", Newline,
    "INSTRUCTIONS: ... Return ONLY a JSON object ...", Newline,
    FieldText, Newline,
    "You MUST return this EXACT JSON structure:", Newline,
    DoubleOpen, "Platform: ", FieldName, "URL: ", FieldUrl, "Main_Offer ... Section_Details: ",
    DoubleOpen, "...", DoubleClose, DoubleClose, Newline,
    "IMPORTANT: ...">>

\* an optional argument: None, or a string
None == [given |-> FALSE, text |-> << >>]
Given(text) == [given |-> TRUE, text |-> text]

\* x and x.strip()
Usable(override) == override.given /\ Len(Strip(override.text)) > 0

\* 809-820: the structured prompt, from the override or from the default
StructuredPrompt(structured_prompt_override, provider_name, url, section) ==
  Format(IF Usable(structured_prompt_override) THEN structured_prompt_override.text
                                               ELSE DEFAULT_STRUCTURED_PROMPT_TEMPLATE,
         provider_name, url, section)

\* 823-826: the custom analysis prompt appended
WithAnalysisPrompt(structured_prompt, prompt_override) ==
  IF Usable(prompt_override)
    THEN structured_prompt \o <<Newline, Newline, "Additional analysis requirements:", Newline>>
           \o prompt_override.text
           \o <<Newline, Newline,
                "REMEMBER: Still return the JSON structure specified above.">>
    ELSE structured_prompt

\* 802-826: final_prompt, or the exception of str.format
FinalPrompt(page_content, provider_name, url, prompt_override, structured_prompt_override) ==
  IF StructuredPrompt(structured_prompt_override, provider_name, url,
                      TextSection(page_content)).raised
    THEN StructuredPrompt(structured_prompt_override, provider_name, url,
                          TextSection(page_content))
    ELSE [raised |-> FALSE, etype |-> "", err |-> << >>,
          text |-> WithAnalysisPrompt(
                     StructuredPrompt(structured_prompt_override, provider_name, url,
                                      TextSection(page_content)).text,
                     prompt_override)]

\* the outcome of one collaborator call: it raised (etype, err) or returned text
Returned(text) == [raised |-> FALSE, text |-> text, etype |-> "", err |-> << >>]
Raised(etype, err) == [raised |-> TRUE, text |-> << >>, etype |-> etype, err |-> err]

\* str(e) of a json.JSONDecodeError: the message and the position of the error
\* (the line, column and character numbers are not modelled)
DecodeErrorStr(msg) == <<msg, ": line, column (char) of the error">>

\* type(x) of a parsed value, as formatted into the ValueError
TypeName(val) ==
  CASE val.t = "list" -> "<class 'list'>"
    [] val.t = "str" -> "<class 'str'>"
    [] val.t = "num" -> "<class 'int'>"
    [] OTHER -> "<class 'dict'>"

\* 839-851: jf, f and end are the positions of the first json fence, of the
\* first fence and of the last fence in response_text (0: none)
CutFence(response_text, jf, f, end) ==
  IF jf # 0
    THEN IF end > jf + 2
           THEN Strip(Strip(Slice(response_text, jf + 2, end - 1)))
           ELSE Strip(response_text)
  ELSE IF f # 0
    THEN IF end > f + 1
           THEN Strip(Strip(Slice(response_text, f + 1, end - 1)))
           ELSE Strip(response_text)
  ELSE Strip(response_text)

\* 839-851 on the stripped reply
CleanStripped(response_text) ==
  CutFence(response_text, FindJsonFence(response_text, 1),
           FindFrom(response_text, Fence, 1),
           RFindFrom(response_text, Fence, Len(response_text)))

\* the cleaning of the reply (835-851): strip, cut the fenced interior, strip
CleanResponse(text) == CleanStripped(Strip(text))

\* the error structure of 906-927
ParseErrorRecord(provider_name, url, e, response_length) ==
  (K("Platform") :> StrV(provider_name)) @@ (K("URL") :> StrV(url)) @@
  (K("Type") :> Text("error")) @@ (K("Main_Offer") :> Text("JSON Parse Error")) @@
  (K("Primary_CTA") :> Text("Error")) @@ (K("Secondary_CTA") :> Text("Error")) @@
  (K("Headline") :> Text("Error")) @@ (K("Subheadline") :> Text("Error")) @@
  (K("Trust_Elements") :> Text("Error")) @@ (K("Visual_Design") :> Text("Error")) @@
  (K("Above_Fold_Elements") :> Text("Error")) @@ (K("Pricing_Info") :> Text("Error")) @@
  (K("Target_Audience") :> Text("Error")) @@ (K("Unique_Selling_Points") :> Text("Error")) @@
  (K("Lead_Generation_Type") :> Text("Error")) @@
  (K("Above_Fold_Sections") :> ListV(<<Text("Parse Error")>>)) @@
  (K("Below_Fold_Sections") :> ListV(<<Text("Parse Error")>>)) @@
  (K("Section_Details") :> DictV(EmptyDict)) @@
  (K("error") :> StrV(<<"JSON parse error: ">> \o e)) @@
  (K("response_length") :> IntV(response_length))

\* the error structure of 929-951
ApiErrorRecord(provider_name, url, etype, e) ==
  (K("Platform") :> StrV(provider_name)) @@ (K("URL") :> StrV(url)) @@
  (K("Type") :> Text("error")) @@ (K("Main_Offer") :> StrV(<<"API Error: ", etype>>)) @@
  (K("Primary_CTA") :> Text("Error")) @@ (K("Secondary_CTA") :> Text("Error")) @@
  (K("Headline") :> Text("Error")) @@ (K("Subheadline") :> Text("Error")) @@
  (K("Trust_Elements") :> Text("Error")) @@ (K("Visual_Design") :> Text("Error")) @@
  (K("Above_Fold_Elements") :> Text("Error")) @@ (K("Pricing_Info") :> Text("Error")) @@
  (K("Target_Audience") :> Text("Error")) @@ (K("Unique_Selling_Points") :> Text("Error")) @@
  (K("Lead_Generation_Type") :> Text("Error")) @@
  (K("Above_Fold_Sections") :> ListV(<< >>)) @@
  (K("Below_Fold_Sections") :> ListV(<< >>)) @@
  (K("Section_Details") :> DictV(EmptyDict)) @@
  (K("error") :> StrV(e))

\* SetIdentity that keeps a Platform and a URL the model supplied
SetIdentity_KeepModel(d, provider_name, url) ==
  [x \in (DOMAIN d) \cup {K("Platform"), K("URL")} |->
     IF x \in DOMAIN d THEN d[x]
     ELSE IF x = K("Platform") THEN StrV(provider_name) ELSE StrV(url)]

\* 869-870 and 899-900: the two identity fields
SetIdentity(d, provider_name, url) ==
  DictSet(DictSet(d, K("Platform"), StrV(provider_name)), K("URL"), StrV(url))

\* if not isinstance(d.get(k), wanted): d[k] = default
EnsureType(d, k, tag, default) ==
  IF GetIs(d, k, tag) THEN d ELSE DictSet(d, k, default)

\* 868-890: the two identity fields, then the section defaults
NormalizeParsed(result_dict, provider_name, url) ==
  EnsureType(
    EnsureType(
      EnsureType(SetIdentity(result_dict, provider_name, url),
                 K("Above_Fold_Sections"), "list",
                 ListV(<<Text("Hero Section"), Text("Navigation Bar")>>)),
      K("Below_Fold_Sections"), "list", ListV(<<Text("Footer")>>)),
    K("Section_Details"), "dict", DictV(EmptyDict))

\* 898-901 on what _extract_json gave; found = FALSE when it (or the item
\* assignment) raised
IdentifyExtracted(extracted, provider_name, url) ==
  IF extracted.ok /\ extracted.val.t = "dict"
    THEN [found |-> TRUE, rec |-> SetIdentity(extracted.val.v, provider_name, url)]
    ELSE [found |-> FALSE, rec |-> EmptyDict]

\* 896-903: the fallback extraction on the raw reply
FallbackExtracted(text, provider_name, url) ==
  IdentifyExtracted(ExtractJson(text), provider_name, url)

\* len(response_text), in characters
RECURSIVE CharLen(_)
CharLen(s) == IF Len(s) = 0 THEN 0 ELSE TokLen(s[1]) + CharLen(Tail(s))

\* 860-927 on the outcome of json.loads(response_text) and of the fallback
RecordFromParsed(parsed, fallback, response_length, provider_name, url) ==
  IF parsed.ok
    THEN IF parsed.val.t # "dict"
           THEN ApiErrorRecord(provider_name, url, "ValueError",
                               <<"Expected dict, got ", TypeName(parsed.val)>>)
           ELSE NormalizeParsed(parsed.val.v, provider_name, url)
  ELSE IF fallback.found THEN fallback.rec
  ELSE ParseErrorRecord(provider_name, url, DecodeErrorStr(parsed.msg), response_length)

\* 835-927: from the reply text to the record
RecordFromReply(text, provider_name, url) ==
  RecordFromParsed(JsonLoads(CleanResponse(text)),
                   FallbackExtracted(text, provider_name, url),
                   CharLen(CleanResponse(text)), provider_name, url)

\* not response.text or not response.text.strip()
IsBlank(text) == Len(Strip(text)) = 0

\* the whole function: image decode, first call with the image, the retry
\* without the image on a blank reply, then the record
GetAnalysis(image, call1, call2, provider_name, url) ==
  IF image.raised THEN ApiErrorRecord(provider_name, url, image.etype, image.err)
  ELSE IF call1.raised THEN ApiErrorRecord(provider_name, url, call1.etype, call1.err)
  ELSE IF IsBlank(call1.text)
    THEN IF call2.raised THEN ApiErrorRecord(provider_name, url, call2.etype, call2.err)
         ELSE RecordFromReply(call2.text, provider_name, url)
  ELSE RecordFromReply(call1.text, provider_name, url)

(***************************************************************************)
(* index (src/app.py 1479-1494): from the form rows to the landing pages.  *)
(***************************************************************************)
Slash == "/"
Dot == "."
Dash == "-"
Underscore == "_"

\* str.lower on one token
Lower(tok) == IF tok = "B" THEN "b" ELSE tok

\* url.split("//")[-1]: what follows the last double slash
RECURSIVE AfterLastDoubleSlash(_)
AfterLastDoubleSlash(s) ==
  LET i == CHOOSE k \in 0..Len(s) :
             /\ k = 0 \/ (k < Len(s) /\ s[k] = Slash /\ s[k + 1] = Slash)
             /\ \A m \in 1..(Len(s) - 1) :
                  (s[m] = Slash /\ s[m + 1] = Slash) => (k # 0 /\ k <= m)
  IN IF i = 0 THEN s ELSE AfterLastDoubleSlash(Slice(s, i + 2, Len(s)))

\* x.split(sep)[0]
BeforeFirst(s, sep) ==
  IF FindFrom(s, sep, 1) = 0 THEN s ELSE Slice(s, 1, FindFrom(s, sep, 1) - 1)

\* x.split(sep)
RECURSIVE SplitOn(_, _)
SplitOn(s, sep) ==
  LET n == FindFrom(s, sep, 1)
  IN IF n = 0 THEN <<s>>
     ELSE <<Slice(s, 1, n - 1)>> \o SplitOn(Slice(s, n + 1, Len(s)), sep)

\* extract_site_name (784-794)
extract_site_name(url) ==
  LET domain_part == BeforeFirst(AfterLastDoubleSlash(url), Slash)
      parts == SplitOn(domain_part, Dot)
      base_name == IF Len(parts) >= 2 THEN parts[Len(parts) - 1] ELSE parts[1]
  IN [i \in 1..Len(base_name) |->
        IF Lower(base_name[i]) \in {Dash, Dot} THEN Underscore ELSE Lower(base_name[i])]

\* the name of the manual screenshot of a provider
ManualFile(name) == name \o <<"_manual.png">>

\* an entry whose manual flag looks at the type only
LandingPage_TypeOnly(url, url_type, files) ==
  [name |-> extract_site_name(url), url |-> Strip(url), type |-> url_type,
   manual |-> url_type = "manual"]

\* one entry of landing_pages (1483-1494); files is the upload folder
LandingPage(url, url_type, files) ==
  LET name == extract_site_name(url)
  IN [name |-> name, url |-> Strip(url), type |-> url_type,
      manual |-> (ManualFile(name) \in files \/ url_type = "manual")]

\* the loop of 1480-1494 over the zipped form rows
RECURSIVE PrepareLandingPages(_, _)
PrepareLandingPages(rows, files) ==
  IF Len(rows) = 0 THEN << >>
  ELSE IF Len(Strip(rows[1].url)) > 0 /\ rows[1].type # ""
    THEN <<LandingPage(rows[1].url, rows[1].type, files)>>
           \o PrepareLandingPages(Tail(rows), files)
  ELSE PrepareLandingPages(Tail(rows), files)

(***************************************************************************)
(* Inputs: the form, the upload folder and what the collaborators answer.  *)
(***************************************************************************)
MaxPages == 2

UrlShop == <<"https:", Slash, Slash, "B", Dash, "b", Dot, "com", Slash, "p">>
UrlBare == <<"https:", Slash, Slash, Dot, "com">>
Urls == {UrlShop, UrlBare}
Types == {"client", "manual"}
FormRows == [url : Urls, type : Types]
UploadNames == {ManualFile(extract_site_name(UrlShop))}

Obj(members) == <<LBrace>> \o members \o <<RBrace>>
Lit(atom) == <<Quote, atom, Quote>>
Member(atom, value) == Lit(atom) \o <<Colon>> \o value

\* a reply that is exactly one object, with its own Platform and URL
ReplyPlain ==
  Obj(Member("Platform", Lit("w")) \o <<Comma>> \o Member("URL", <<"1">>)
      \o <<Comma>> \o Member("a", <<"1">>))
\* the same kind of object inside a sentence
ReplyInProse == <<"w", Space>> \o Obj(Member("URL", Lit("w"))) \o <<Space, "w">>
\* no JSON at all
ReplyProse == <<"w", Space, "w">>
ReplyBlank == <<Space>>

Replies == {ReplyPlain, ReplyInProse, ReplyProse, ReplyBlank}
RetryReplies == {ReplyPlain, ReplyBlank}

\* an exception that any call can raise, whose str(e) is the empty string
OutOfMemory == Raised("MemoryError", << >>)

ModelCalls ==
  {Returned(r) : r \in Replies} \cup {Raised("ResourceExhausted", <<"quota exceeded">>), OutOfMemory}
RetryCalls == {Returned(r) : r \in RetryReplies} \cup {Raised("ResourceExhausted", <<"quota exceeded">>)}
ImageOpens ==
  {Returned(<< >>), Raised("UnidentifiedImageError", <<"cannot identify image file">>), OutOfMemory}

\* the replies of the extraction runs: prose, an opening, a body, a closing, prose
ProseBefore == {<< >>, <<"w", Space>>, <<LBrace, "w", RBrace, Space>>}
Openers == {<< >>, <<Fence, JsonTag, Newline>>, <<Fence, Newline>>, <<LBracket>>}
Closers == {<< >>, <<Newline, Fence>>, <<RBracket>>}
ProseAfter == {<< >>, <<Space, "w">>, <<Space, RBrace>>}

BodyObject == Obj(Member("a", <<"1">>))
BodyNested == Obj(Member("a", Obj(Member("b", Lit("w")))))
BodyFenceInString ==
  Obj(Member("a", <<Quote, RBrace, Fence, Quote>>) \o <<Comma>> \o Member("b", <<"1">>))
BodyIdentity ==
  Obj(Member("Platform", Lit("w")) \o <<Comma>> \o Member("URL", <<"1">>)
      \o <<Comma>> \o Member("error", Lit("w")))
BodyUnclosed == <<LBrace>> \o Member("a", <<"1">>)
BodyPairLine == Lit("a") \o <<Colon, Space>> \o Lit("w")
BodyTwoObjects == Obj(Member("a", <<"1">>)) \o <<Space>> \o Obj(Member("b", <<"2">>))
BodyWords == <<"w">>
BodyScalar == <<"1">>
BodyEmpty == << >>
\* a run of 480 letters, one atom
Paragraph == "w{480}"
\* prose of more characters than the snippet holds, with a newline in it
BodyLongProse ==
  <<"w", Newline, Paragraph>> \o [i \in 1..20 |-> "w"] \o <<"y", "z">>
Bodies == {BodyObject, BodyNested, BodyFenceInString, BodyIdentity, BodyUnclosed,
           BodyPairLine, BodyTwoObjects, BodyWords, BodyScalar, BodyEmpty, BodyLongProse}

ReplyParts == [before : ProseBefore, opener : Openers, body : Bodies,
               closer : Closers, after : ProseAfter]
Assembled(parts) ==
  parts.before \o parts.opener \o parts.body \o parts.closer \o parts.after
NoParts == [before |-> << >>, opener |-> << >>, body |-> << >>,
            closer |-> << >>, after |-> << >>]
\* the images of the normalization runs
Dims == {1, 3, 1000, 2047, 2048, 2049, 3000, 4096, 5000}
Modes == {"RGB", "RGBA", "P"}
Orientations == {1, 3, 6}
Pictures == {Picture(w, h, m, o) : w \in Dims, h \in Dims, m \in Modes, o \in Orientations}
NoPicture == Picture(1, 1, "RGB", 1)

\* the arguments of the analysis runs
LongText(n) ==
  [i \in 1..n |-> IF i <= TEXT_BUDGET THEN "x" ELSE IF i = TEXT_BUDGET + 1 THEN "y" ELSE "z"]
PageTexts == {<< >>, <<"h", "i">>, LongText(TEXT_BUDGET), LongText(TEXT_BUDGET + 2)}
PromptOverrides == {None, Given(<<Space>>), Given(<<"Focus on pricing">>)}
TemplateFields == <<"Describe ", FieldName, " at ", FieldUrl, Newline, FieldText>>
TemplatePlain == <<"Describe the page as JSON">>
TemplateBraces == <<"Return ", FieldJson>>
TemplateOpen == <<"Return ", LBrace, " a">>
TemplateClose == <<"Return a ", RBrace>>
TemplateUnknown == <<"Compare with ", FieldOther, Newline, FieldText>>
StructuredOverrides ==
  {None, Given(<<Space>>), Given(DEFAULT_STRUCTURED_PROMPT_TEMPLATE), Given(TemplateFields),
   Given(TemplatePlain), Given(TemplateBraces), Given(TemplateOpen), Given(TemplateClose),
   Given(TemplateUnknown)}
Requests == [page_content : PageTexts, prompt_override : PromptOverrides,
             structured_prompt_override : StructuredOverrides]
NoRequest == [page_content |-> << >>, prompt_override |-> None,
              structured_prompt_override |-> None]

NotRun == [ok |-> FALSE, via |-> "notrun", val |-> NoValue, msg |-> << >>]

(***************************************************************************)
(* analyze_landing_pages (src/app.py 1241-1434) as a state machine: one    *)
(* action per stretch of code between two collaborator calls.              *)
(***************************************************************************)
VARIABLES
  pc,               \* where analyze_landing_pages stands
  upload_folder,    \* the file names present in app.config['UPLOAD_FOLDER']
  landing_pages,    \* the argument of analyze_landing_pages
  cur,              \* the position of lp in landing_pages
  all_course_data,  \* the records appended so far
  origin,           \* history: for each record, the request it was built for (0: none)
  phase,            \* history: the state of each request
  faults,           \* history: per request, the stages that raised
  fatal,            \* history: the stage whose error reached the outer handler
  table,            \* df, the DataFrame built from all_course_data
  reply_parts,      \* extraction runs: the pieces of the reply
  extracted,        \* extraction runs: what _extract_json gave for the reply
  analysis,         \* extraction runs: the record of the pipeline for the reply
  image_in,         \* normalization runs: the image as opened
  prepared,         \* normalization runs: the results of the successive _prepare_image
  request,          \* analysis runs: page_content and the two prompt overrides
  final_prompt,     \* analysis runs: the prompt built
  calls,            \* analysis runs: the generate_content calls made
  responses,        \* analysis runs: what each call returned or raised
  mode,             \* history: per request, the branch of the loop that processed it
  clock,            \* the second that datetime.now() gives
  session,          \* timestamp of analyze_landing_pages
  section_table,    \* section_comparison_df
  summary_report,   \* summary_report
  report_calls,     \* history: the arguments of each generate_summary_report call
  config,           \* app.config, its five LAST_ keys
  disk,             \* the files written under app.config['OUTPUT_FOLDER']
  db,               \* the rows of landing_page_analysis, oldest first
  form,             \* the form and files of the request that index handles
  response,         \* what index rendered for it
  submitted,        \* history: how many POST requests index has handled
  handlers          \* concurrent runs: where each request handler stands

batch_vars == <<pc, upload_folder, landing_pages, cur, all_course_data, origin, phase, faults,
                fatal, table>>
tail_vars == <<section_table, summary_report, report_calls, config, disk, db>>
form_vars == <<form, response, handlers, submitted>>
web_vars == <<mode, clock, session, tail_vars, form_vars>>
batch_vars_but_pc == <<upload_folder, landing_pages, cur, all_course_data, origin, phase, faults,
                       fatal, table, web_vars>>
reply_vars == <<reply_parts, extracted, analysis>>
image_vars == <<image_in, prepared>>
call_vars == <<request, final_prompt, calls, responses>>
vars == <<pc, upload_folder, landing_pages, cur, all_course_data, origin, phase, faults, fatal,
          table, reply_parts, extracted, analysis, image_in, prepared,
          request, final_prompt, calls, responses, mode, clock, session, section_table,
          summary_report, report_calls, config, disk, db, form, response, handlers, submitted>>

\* a cell of the DataFrame whose record lacks the column
NaN == [t |-> "nan", v |-> << >>]
NoTable == [columns |-> {}, rows |-> << >>]

\* the cell of a record under a column
Cell(rec, col) == IF col \in DOMAIN rec THEN rec[col] ELSE NaN

\* a table whose columns are those of the first record only
DataFrame_FirstRecordColumns(records) ==
  [columns |-> DOMAIN records[1],
   rows |-> [k \in 1..Len(records) |->
               [col \in DOMAIN records[1] |-> Cell(records[k], col)]]]

\* pd.DataFrame(list of dicts), 1375: the columns are the keys seen in any
\* record, and a record lacking a column gets NaN there
DataFrame(records) ==
  [columns |-> UNION {DOMAIN records[k] : k \in 1..Len(records)},
   rows |-> [k \in 1..Len(records) |->
               [col \in UNION {DOMAIN records[j] : j \in 1..Len(records)} |->
                  Cell(records[k], col)]]]

\* df.to_csv, 1377: whether a cell is written as an empty field (na_rep is '')
CsvEmpty(cell) == cell = NaN \/ (cell.t = "str" /\ cell.v = << >>)

\* the short failure record of 1278-1283, 1303-1308, 1337-1350
FailureRecord(lp, error) ==
  (K("Platform") :> StrV(lp.name)) @@ (K("URL") :> StrV(lp.url)) @@
  (K("Type") :> Text(lp.type)) @@ (K("error") :> StrV(error))

\* 1359-1364
SystemErrorRecord(e) ==
  (K("Platform") :> Text("SYSTEM_ERROR")) @@ (K("URL") :> Text("N/A")) @@
  (K("Type") :> Text("error")) @@ (K("error") :> StrV(<<"Fatal error: ">> \o e))

\* 1367-1372
NoDataRecord ==
  (K("Platform") :> Text("NO_DATA")) @@ (K("URL") :> Text("N/A")) @@
  (K("Type") :> Text("error")) @@ (K("error") :> Text("No data was collected"))

IsManual(lp) == lp.manual \/ lp.type = "manual"

HasError(rec) == K("error") \in DOMAIN rec

N == Len(landing_pages)

(***************************************************************************)
(* The section comparison (src/app.py 953-1130).                           *)
(***************************************************************************)
CheckMark == "<check mark>"
CrossMark == "<cross mark>"

\* bool(x) of a parsed value
Truthy(val) ==
  CASE val.t = "str" -> Len(val.v) > 0
    [] val.t = "list" -> Len(val.v) > 0
    [] val.t = "dict" -> DOMAIN val.v # {}
    [] OTHER -> TRUE

\* the section names of the runs in the order sorted() gives them
SectionOrder ==
  <<"Call-to-Action", "Contact Information", "FAQ", "Features Section", "Footer",
    "Hero Section", "Navigation Bar", "Pricing", "Testimonials", "Trust Indicators",
    "Value Proposition">>

\* sorted(list(names))
Sorted(names) ==
  SelectSeq([i \in 1..Len(SectionOrder) |-> <<SectionOrder[i]>>], LAMBDA name : name \in names)

\* provider_data.get(key, []) when it is a list, else no element
SectionList(rec, key) == IF GetIs(rec, key, "list") THEN rec[key].v ELSE << >>

\* section.strip() raises: a truthy element that is not a str
StripRaises(rec, key) ==
  \E i \in 1..Len(SectionList(rec, key)) :
    SectionList(rec, key)[i].t # "str" /\ Truthy(SectionList(rec, key)[i])

\* 975-979 and 985-989: the trimmed, non-blank names of one list
NormalizedSections(rec, key) ==
  {Strip(SectionList(rec, key)[i].v) :
     i \in {j \in 1..Len(SectionList(rec, key)) :
              /\ SectionList(rec, key)[j].t = "str"
              /\ Len(Strip(SectionList(rec, key)[j].v)) > 0}}

\* 965-989: the names of all records without error
CollectedSections(data, key) ==
  UNION {NormalizedSections(data[k], key) : k \in {j \in 1..Len(data) : ~HasError(data[j])}}

\* 995-1008: the generic defaults for an empty set
OrDefault(names, default) == IF names = {} THEN default ELSE names

\* consolidate_sections_across_providers (953-1013)
consolidate_sections_across_providers(data) ==
  [above_fold |->
     Sorted(OrDefault(CollectedSections(data, K("Above_Fold_Sections")),
                      {<<"Hero Section">>, <<"Navigation Bar">>, <<"Value Proposition">>,
                       <<"Call-to-Action">>, <<"Trust Indicators">>})),
   below_fold |->
     Sorted(OrDefault(CollectedSections(data, K("Below_Fold_Sections")),
                      {<<"Features Section">>, <<"Testimonials">>, <<"Pricing">>, <<"FAQ">>,
                       <<"Footer">>, <<"Contact Information">>}))]

\* 1024: valid_providers
valid_providers(data) == SelectSeq(data, LAMBDA p : ~HasError(p))

\* the column names: the Platform of each valid provider
ProviderColumns(data) ==
  {valid_providers(data)[k][K("Platform")].v : k \in 1..Len(valid_providers(data))}

\* the provider whose value a column ends with: the last one of that name
LastNamed(data, name) ==
  valid_providers(data)[
    CHOOSE k \in 1..Len(valid_providers(data)) :
      /\ valid_providers(data)[k][K("Platform")].v = name
      /\ \A j \in (k + 1)..Len(valid_providers(data)) :
           valid_providers(data)[j][K("Platform")].v # name]

\* one row of comparison_data: the label under Section, then one cell per
\* provider name (a provider named Section replaces the label)
ComparisonRow(label, data, CellOf(_)) ==
  [col \in {K("Section")} \cup ProviderColumns(data) |->
     IF col \in ProviderColumns(data) THEN CellOf(LastNamed(data, col)) ELSE Text(label)]

\* 1056-1068 and 1077-1089: the row of one section
SectionRow(section, key, data) ==
  [col \in {K("Section")} \cup ProviderColumns(data) |->
     IF col \in ProviderColumns(data)
       THEN IF \E i \in 1..Len(SectionList(LastNamed(data, col), key)) :
                  SectionList(LastNamed(data, col), key)[i] = StrV(section)
              THEN Text(CheckMark) ELSE Text(CrossMark)
       ELSE StrV(section)]

\* 1097-1123: str(len(list)), or '0' for what is not a list
CountCell(rec, key) ==
  IF GetIs(rec, key, "list") THEN StrV(<<ToString(Len(rec[key].v))>>) ELSE Text("0")

\* 1037-1123: comparison_data
comparison_data(data, sections) ==
  <<ComparisonRow("Platform", data, LAMBDA p : p[K("Platform")]),
    ComparisonRow("URL", data, LAMBDA p : IF K("URL") \in DOMAIN p THEN p[K("URL")] ELSE Text("N/A")),
    ComparisonRow("=== ABOVE THE FOLD ===", data, LAMBDA p : StrV(<< >>))>>
  \o [i \in 1..Len(sections.above_fold) |->
        SectionRow(sections.above_fold[i], K("Above_Fold_Sections"), data)]
  \o <<ComparisonRow("=== BELOW THE FOLD ===", data, LAMBDA p : StrV(<< >>))>>
  \o [i \in 1..Len(sections.below_fold) |->
        SectionRow(sections.below_fold[i], K("Below_Fold_Sections"), data)]
  \o <<ComparisonRow("=== SECTION COUNTS ===", data, LAMBDA p : StrV(<< >>)),
       ComparisonRow("Total Above Fold Sections", data,
                     LAMBDA p : CountCell(p, K("Above_Fold_Sections"))),
       ComparisonRow("Total Below Fold Sections", data,
                     LAMBDA p : CountCell(p, K("Below_Fold_Sections")))>>

\* create_section_comparison_dataframe raises: section.strip() of 975 or 985
ComparisonRaises(data) ==
  /\ Len(valid_providers(data)) > 0
  /\ \E k \in 1..Len(data) :
       /\ ~HasError(data[k])
       /\ StripRaises(data[k], K("Above_Fold_Sections"))
            \/ StripRaises(data[k], K("Below_Fold_Sections"))

\* create_section_comparison_dataframe (1016-1130), when it returns
create_section_comparison_dataframe(data) ==
  IF Len(valid_providers(data)) = 0
    THEN DataFrame(<<(K("Section") :> Text("No valid data collected"))
                       @@ (K("Status") :> Text("Error"))>>)
    ELSE DataFrame(comparison_data(data, consolidate_sections_across_providers(data)))

\* create_section_details_dataframe (1133-1158) returns a table
HasSectionDetails(data) ==
  \E k \in 1..Len(data) :
    /\ ~HasError(data[k])
    /\ GetIs(data[k], K("Section_Details"), "dict")
    /\ DOMAIN data[k][K("Section_Details")].v # {}

(***************************************************************************)
(* The session of one analysis and what it leaves behind: the files of the *)
(* session directory, the rows of landing_page_analysis, app.config.       *)
(***************************************************************************)
\* 1244-1246: session_id and session_dir, both made of the timestamp
session_id(timestamp) == <<"session_", ToString(timestamp)>>
session_dir(timestamp) == <<"analysis_results/analysis_", ToString(timestamp)>>

\* os.path.join(session_dir, file_name)
PathIn(timestamp, file_name) == session_dir(timestamp) \o <<"/", file_name>>

CsvName == "competitive_analysis_data.csv"
SectionCsvName == "section_comparison_table.csv"
DetailsName == "section_implementation_details.csv"
ReportName == "summary_and_recommendations.md"

\* app.config before any analysis: app.config.get gives None for the five keys
NoConfig ==
  [LAST_SESSION_ID |-> None, LAST_CSV_PATH |-> None, LAST_REPORT_PATH |-> None,
   LAST_SESSION_DIR |-> None, LAST_SECTION_CSV_PATH |-> None]

\* save_analysis_result_to_db (269-295): one row; owner stands for the content,
\* that is for the run that made it
AnalysisResult(timestamp, file_type, file_name, owner) ==
  [session_id |-> session_id(timestamp), file_type |-> file_type, file_name |-> file_name,
   owner |-> owner]

NoResult == [session_id |-> << >>, file_type |-> "", file_name |-> "", owner |-> 0]

\* get_analysis_result_from_db (324-354): the latest row of the session and
\* type, NoResult when there is none (or no session id)
get_analysis_result_from_db(rows, sid, file_type) ==
  IF sid.given /\ \E k \in 1..Len(rows) :
                       rows[k].session_id = sid.text /\ rows[k].file_type = file_type
    THEN rows[CHOOSE k \in 1..Len(rows) :
                /\ rows[k].session_id = sid.text /\ rows[k].file_type = file_type
                /\ \A j \in (k + 1)..Len(rows) :
                     ~(rows[j].session_id = sid.text /\ rows[j].file_type = file_type)]
    ELSE NoResult

\* 1249-1258: client_name
ClientName(pages) ==
  IF \E i \in 1..Len(pages) : pages[i].type = "client"
    THEN pages[CHOOSE i \in 1..Len(pages) :
                 /\ pages[i].type = "client"
                 /\ \A j \in 1..(i - 1) : pages[j].type # "client"].name
  ELSE IF Len(pages) > 0 THEN pages[1].name
  ELSE <<"Unknown">>

\* 1410: the rows whose error is null, or the whole table when it has no
\* error column
SuccessfulRows(df) ==
  IF K("error") \in df.columns
    THEN [columns |-> df.columns,
          rows |-> SelectSeq(df.rows, LAMBDA row : row[K("error")] = NaN)]
    ELSE df

\* what generate_content gives for the report prompt
ReportCalls ==
  {Returned(<<"# Strategic Executive Summary">>), Raised("ResourceExhausted", <<"quota exceeded">>)}

\* generate_summary_report (1161-1238): the text of the model, or the text of
\* the handler of 1236-1238
SummaryText(outcome) ==
  IF outcome.raised THEN <<"Error generating summary report: ">> \o outcome.err
  ELSE outcome.text

NoForm == [urls |-> << >>, types |-> << >>, files |-> {}]
NoResponse == [error |-> << >>, success |-> << >>, csv |-> NoResult, sections |-> NoResult]

\* the variables of the web application, for the runs that do not use them
WebIdle ==
  /\ mode = [i \in 1..Len(landing_pages) |-> "none"]
  /\ clock = 0
  /\ session = 0
  /\ section_table = NoTable
  /\ summary_report = << >>
  /\ report_calls = << >>
  /\ config = NoConfig
  /\ disk = {}
  /\ db = << >>
  /\ form = NoForm
  /\ response = NoResponse
  /\ handlers = << >>
  /\ submitted = 0

Init ==
  /\ pc = "setup"
  /\ upload_folder \in SUBSET UploadNames
  /\ \E n \in 1..MaxPages : \E rows \in [1..n -> FormRows] :
        landing_pages = PrepareLandingPages(rows, upload_folder)
  /\ cur = 1
  /\ all_course_data = << >>
  /\ origin = << >>
  /\ phase = [i \in 1..Len(landing_pages) |-> "Pending"]
  /\ faults = [i \in 1..Len(landing_pages) |-> {}]
  /\ fatal = "none"
  /\ table = NoTable
  /\ reply_parts = NoParts
  /\ extracted = NotRun
  /\ analysis = EmptyDict
  /\ image_in = NoPicture
  /\ prepared = << >>
  /\ request = NoRequest
  /\ final_prompt = << >>
  /\ calls = << >>
  /\ responses = << >>
  /\ mode = [i \in 1..Len(landing_pages) |-> "none"]
  /\ clock = 1
  /\ session = 1
  /\ section_table = NoTable
  /\ summary_report = << >>
  /\ report_calls = << >>
  /\ config = NoConfig
  /\ disk = {}
  /\ db = << >>
  /\ form = NoForm
  /\ response = NoResponse
  /\ handlers = << >>
  /\ submitted = 0

\* an outer handler that only logs the error
Fatal_LogOnly(stage, e) ==
  /\ UNCHANGED <<all_course_data, origin>>
  /\ fatal' = stage
  /\ pc' = "assemble"

\* the outer handler (1357-1364): whatever escapes the with-block ends the loop
Fatal(stage, e) ==
  /\ all_course_data' = Append(all_course_data, SystemErrorRecord(e))
  /\ origin' = Append(origin, 0)
  /\ fatal' = stage
  /\ pc' = "assemble"

\* an append that is made twice
Emit_Twice(rec) ==
  /\ all_course_data' = all_course_data \o <<rec, rec>>
  /\ origin' = origin \o <<cur, cur>>
  /\ phase' = [phase EXCEPT ![cur] = IF HasError(rec) THEN "Failed" ELSE "Done"]

\* all_course_data.append(record) for the current request
Emit(rec) ==
  /\ all_course_data' = Append(all_course_data, rec)
  /\ origin' = Append(origin, cur)
  /\ phase' = [phase EXCEPT ![cur] = IF HasError(rec) THEN "Failed" ELSE "Done"]

Fault(stage) == faults' = [faults EXCEPT ![cur] = @ \cup {stage}]

\* 1261-1266: sync_playwright, chromium.launch, new_context
Setup ==
  /\ pc = "setup"
  /\ \/ /\ pc' = "loop"
        /\ UNCHANGED <<all_course_data, origin, fatal>>
     \/ Fatal("launch", <<"Executable doesn't exist">>)
  /\ UNCHANGED <<table, upload_folder, landing_pages, cur, phase, faults>>
  /\ UNCHANGED <<reply_vars, image_vars, call_vars, web_vars>>

\* 1268-1271 and 1311: the head of one iteration
BeginPage ==
  /\ pc = "loop"
  /\ cur <= N
  /\ LET lp == landing_pages[cur]
     IN IF IsManual(lp)
          THEN /\ pc' = "capture"
               /\ phase' = [phase EXCEPT ![cur] = "Capturing"]
               /\ mode' = [mode EXCEPT ![cur] = "manual"]
               /\ UNCHANGED <<all_course_data, origin, faults, cur, fatal>>
          ELSE /\ mode' = [mode EXCEPT ![cur] = "automatic"]
               /\ \/ /\ pc' = "capture"
                     /\ phase' = [phase EXCEPT ![cur] = "Capturing"]
                     /\ UNCHANGED <<all_course_data, origin, faults, cur, fatal>>
                  \/ /\ Fatal("new_page", <<"Target closed">>)
                     /\ Fault("new_page")
                     /\ UNCHANGED <<cur, phase>>
  /\ UNCHANGED <<table, upload_folder, landing_pages>>
  /\ UNCHANGED <<reply_vars, image_vars, call_vars, clock, session, tail_vars, form_vars>>

\* where the loop goes after the record of the current page
AfterRecord == IF IsManual(landing_pages[cur]) THEN "loop" ELSE "close"

\* 1273-1291 and 1312-1326: finding and reading the screenshot; the manual
\* file is missing, the read or the navigation raises, or the page moves on to
\* the analysis
Capture ==
  /\ pc = "capture"
  /\ LET lp == landing_pages[cur]
     IN \/ /\ IsManual(lp) => ManualFile(lp.name) \in upload_folder
           /\ pc' = "analyze"
           /\ phase' = [phase EXCEPT ![cur] = "Analyzing"]
           /\ UNCHANGED <<all_course_data, origin, faults, cur>>
        \/ /\ IsManual(lp)
           /\ ManualFile(lp.name) \notin upload_folder
           /\ Emit(FailureRecord(lp, <<"Manual screenshot '">> \o ManualFile(lp.name)
                                       \o <<"' not found.">>))
           /\ Fault("manual_file")
           /\ pc' = "loop"
           /\ cur' = cur + 1
        \/ /\ IsManual(lp)
           /\ ManualFile(lp.name) \in upload_folder
           /\ Emit(FailureRecord(lp, <<"Manual processing error: ", "Permission denied">>))
           /\ Fault("read")
           /\ pc' = "loop"
           /\ cur' = cur + 1
        \/ /\ ~IsManual(lp)
           /\ Emit(FailureRecord(lp, <<"Page load timeout">>))
           /\ Fault("timeout")
           /\ pc' = "close"
           /\ UNCHANGED cur
        \/ /\ ~IsManual(lp)
           /\ Emit(FailureRecord(lp, <<"Auto processing error: ", "net::ERR_NAME_NOT_RESOLVED">>))
           /\ Fault("navigation")
           /\ pc' = "close"
           /\ UNCHANGED cur
  /\ UNCHANGED <<table, upload_folder, landing_pages, fatal>>
  /\ UNCHANGED <<reply_vars, image_vars, call_vars, web_vars>>

\* the stage of the analysis that failed, if any
AnalysisFault(image, call1, call2, rec) ==
  IF image.raised THEN {"decode"}
  ELSE IF call1.raised \/ (IsBlank(call1.text) /\ call2.raised) THEN {"model_call"}
  ELSE IF HasError(rec) THEN {"parse"}
  ELSE {}

\* 1295-1298 and 1328-1331: structured_data with its Type
AnalysisRecord(lp, image, call1, call2) ==
  DictSet(GetAnalysis(image, call1, call2, lp.name, lp.url), K("Type"), Text(lp.type))

\* 1299 and 1332: the append
EmitAnalysis(image, call1, call2, rec) ==
  /\ Emit(rec)
  /\ faults' = [faults EXCEPT ![cur] = @ \cup AnalysisFault(image, call1, call2, rec)]

\* 1295-1299 and 1328-1332: the analysis of the captured page and its record
Analyze ==
  /\ pc = "analyze"
  /\ \E image \in ImageOpens, call1 \in ModelCalls, call2 \in RetryCalls :
       EmitAnalysis(image, call1, call2,
                    AnalysisRecord(landing_pages[cur], image, call1, call2))
  /\ pc' = AfterRecord
  /\ cur' = IF IsManual(landing_pages[cur]) THEN cur + 1 ELSE cur
  /\ UNCHANGED <<table, upload_folder, landing_pages, fatal>>
  /\ UNCHANGED <<reply_vars, image_vars, call_vars, web_vars>>

\* 1351-1352: page.close() in the finally of the automatic branch
ClosePage ==
  /\ pc = "close"
  /\ \/ /\ pc' = "loop"
        /\ cur' = cur + 1
        /\ UNCHANGED <<all_course_data, origin, faults, fatal>>
     \/ /\ Fatal("page_close", <<"Target closed">>)
        /\ Fault("page_close")
        /\ UNCHANGED cur
  /\ UNCHANGED <<table, upload_folder, landing_pages, phase>>
  /\ UNCHANGED <<reply_vars, image_vars, call_vars, web_vars>>

\* 1354 and the exit of the with-block
Teardown ==
  /\ pc = "loop"
  /\ cur > N
  /\ \/ /\ pc' = "assemble"
        /\ UNCHANGED <<all_course_data, origin, fatal>>
     \/ Fatal("browser_close", <<"Connection closed">>)
  /\ UNCHANGED <<table, upload_folder, landing_pages, cur, phase, faults>>
  /\ UNCHANGED <<reply_vars, image_vars, call_vars, web_vars>>

\* the rows saved with the main table and with the section comparison
SavedTables ==
  <<AnalysisResult(session, "csv", CsvName, session),
    AnalysisResult(session, "section_comparison", SectionCsvName, session)>>

\* 1366-1407: the NO_DATA row, the table, the section comparison and the
\* section details, each written to the session directory and the first two
\* saved to the database; an exception of the section comparison leaves
\* analyze_landing_pages after the main table was saved
Assemble ==
  /\ pc = "assemble"
  /\ all_course_data' = IF Len(all_course_data) = 0 THEN <<NoDataRecord>> ELSE all_course_data
  /\ origin' = IF Len(all_course_data) = 0 THEN <<0>> ELSE origin
  /\ table' = DataFrame(all_course_data')
  /\ IF ComparisonRaises(all_course_data')
       THEN /\ disk' = disk \cup {PathIn(session, CsvName)}
            /\ db' = Append(db, SavedTables[1])
            /\ pc' = "raised"
            /\ UNCHANGED <<section_table, config>>
       ELSE /\ section_table' = create_section_comparison_dataframe(all_course_data')
            /\ disk' = disk \cup {PathIn(session, CsvName), PathIn(session, SectionCsvName)}
                         \cup (IF HasSectionDetails(all_course_data')
                                 THEN {PathIn(session, DetailsName)} ELSE {})
            /\ db' = db \o SavedTables
            /\ config' = [config EXCEPT
                            !.LAST_SECTION_CSV_PATH = Given(PathIn(session, SectionCsvName))]
            /\ pc' = "report"
  /\ UNCHANGED <<upload_folder, landing_pages, cur, phase, faults, fatal>>
  /\ UNCHANGED <<reply_vars, image_vars, call_vars, mode, clock, session, summary_report,
                 report_calls, form_vars>>

\* 1429-1432: the session info for the downloads
StoreSession(timestamp, report_path) ==
  config' = [config EXCEPT !.LAST_SESSION_ID = Given(session_id(timestamp)),
                           !.LAST_CSV_PATH = Given(PathIn(timestamp, CsvName)),
                           !.LAST_REPORT_PATH = report_path,
                           !.LAST_SESSION_DIR = Given(session_dir(timestamp))]

\* 1409-1434: the summary report, made from the rows without error when
\* there is one, and the session info
Report ==
  /\ pc = "report"
  /\ IF Len(SuccessfulRows(table).rows) > 0
       THEN /\ \E outcome \in ReportCalls : summary_report' = SummaryText(outcome)
            /\ report_calls' = Append(report_calls,
                                      [course_data_df |-> SuccessfulRows(table),
                                       client_name |-> ClientName(landing_pages),
                                       section_comparison_df |-> section_table])
            /\ disk' = disk \cup {PathIn(session, ReportName)}
            /\ db' = Append(db, AnalysisResult(session, "report", ReportName, session))
            /\ StoreSession(session, Given(PathIn(session, ReportName)))
       ELSE /\ summary_report' = <<"No successful data collection for report generation.">>
            /\ StoreSession(session, None)
            /\ UNCHANGED <<report_calls, disk, db>>
  /\ pc' = "done"
  /\ UNCHANGED <<upload_folder, landing_pages, cur, all_course_data, origin, phase, faults,
                 fatal, table>>
  /\ UNCHANGED <<reply_vars, image_vars, call_vars, mode, clock, session, section_table,
                 form_vars>>

Next ==
  Setup \/ BeginPage \/ Capture \/ Analyze \/ ClosePage \/ Teardown \/ Assemble \/ Report

Spec == Init /\ [][Next]_vars

(***************************************************************************)
(* The form handler: successive submissions, each one validated and then   *)
(* analysed by the steps above (src/app.py 1443-1560).                     *)
(***************************************************************************)
MaxSubmissions == 2

Blank == <<Space>>
FormUrls == {UrlShop, Blank}
FormTypes == Types \cup {""}
ListsOf(S) == UNION {[1..n -> S] : n \in 0..MaxPages}
Forms == [urls : ListsOf(FormUrls), types : ListsOf(FormTypes), files : SUBSET UploadNames]

\* zip(urls, types), 1482
Zip(urls, types) ==
  [i \in 1..(IF Len(urls) < Len(types) THEN Len(urls) ELSE Len(types)) |->
     [url |-> urls[i], type |-> types[i]]]

\* the validations of 1465-1477 and 1498-1500: the message rendered, or the
\* empty text when the analysis starts; files is the upload folder
FormError(f, files) ==
  IF \A i \in 1..Len(f.urls) : Len(Strip(f.urls[i])) = 0
    THEN <<"Please provide at least one URL">>
  ELSE IF Len(f.urls) # Len(f.types)
    THEN <<"Each URL must have a corresponding type selected">>
  ELSE IF \A i \in 1..Len(f.types) : f.types[i] # "client"
    THEN <<"Please designate at least one URL as 'Client'">>
  ELSE IF Len(PrepareLandingPages(Zip(f.urls, f.types), files)) = 0
    THEN <<"No valid URLs to analyze">>
  ELSE << >>

\* the locals of analyze_landing_pages for a list of landing pages
StartAnalysis(pages) ==
  /\ landing_pages' = pages
  /\ cur' = 1
  /\ all_course_data' = << >>
  /\ origin' = << >>
  /\ phase' = [i \in 1..Len(pages) |-> "Pending"]
  /\ faults' = [i \in 1..Len(pages) |-> {}]
  /\ mode' = [i \in 1..Len(pages) |-> "none"]
  /\ fatal' = "none"
  /\ table' = NoTable
  /\ section_table' = NoTable
  /\ summary_report' = << >>
  /\ report_calls' = << >>

InitForm ==
  /\ pc = "idle"
  /\ upload_folder = {}
  /\ landing_pages = << >>
  /\ cur = 1
  /\ all_course_data = << >>
  /\ origin = << >>
  /\ phase = << >>
  /\ faults = << >>
  /\ fatal = "none"
  /\ table = NoTable
  /\ reply_parts = NoParts
  /\ extracted = NotRun
  /\ analysis = EmptyDict
  /\ image_in = NoPicture
  /\ prepared = << >>
  /\ request = NoRequest
  /\ final_prompt = << >>
  /\ calls = << >>
  /\ responses = << >>
  /\ WebIdle

\* datetime.now() of 1243, to the second: the second of the last analysis
\* or a later one
Now == IF clock = 0 THEN {1} ELSE {clock, clock + 1}

\* index for a POST, 1453-1500, and the head of analyze_landing_pages,
\* 1241-1258: the uploads are saved first, then the form is validated, then
\* the session of the current second is opened
Submit ==
  /\ pc = "idle"
  /\ submitted < MaxSubmissions
  /\ submitted' = submitted + 1
  /\ \E f \in Forms :
       /\ upload_folder' = upload_folder \cup f.files
       /\ IF FormError(f, upload_folder') # << >>
            THEN /\ response' = [NoResponse EXCEPT !.error = FormError(f, upload_folder')]
                 /\ form' = NoForm
                 /\ pc' = "idle"
                 /\ UNCHANGED <<landing_pages, cur, all_course_data, origin, phase, faults,
                                mode, fatal, table, section_table, summary_report,
                                report_calls, clock, session>>
            ELSE /\ StartAnalysis(PrepareLandingPages(Zip(f.urls, f.types), upload_folder'))
                 /\ clock' \in Now
                 /\ session' = clock'
                 /\ form' = f
                 /\ response' = NoResponse
                 /\ pc' = "setup"
  /\ UNCHANGED <<reply_vars, image_vars, call_vars, config, disk, db, handlers>>

\* 1502-1560: after the analysis the page shows the tables read back from
\* the database under app.config['LAST_SESSION_ID']; 1555-1557: an
\* exception of the analysis is rendered as an error
Respond ==
  /\ pc \in {"done", "raised"}
  /\ response' =
       IF pc = "raised"
         THEN [NoResponse EXCEPT !.error = <<"Analysis failed: ">>]
         ELSE [error |-> << >>,
               success |-> <<"Analysis completed successfully! Processed ",
                             ToString(Len(landing_pages)), " landing pages.">>,
               csv |-> get_analysis_result_from_db(db, config.LAST_SESSION_ID, "csv"),
               sections |-> get_analysis_result_from_db(db, config.LAST_SESSION_ID,
                                                        "section_comparison")]
  /\ StartAnalysis(<< >>)
  /\ form' = NoForm
  /\ pc' = "idle"
  /\ UNCHANGED <<upload_folder, clock, session, config, disk, db, handlers, submitted>>
  /\ UNCHANGED <<reply_vars, image_vars, call_vars>>

NextForm ==
  Submit \/ Setup \/ BeginPage \/ Capture \/ Analyze \/ ClosePage \/ Teardown \/ Assemble
    \/ Report \/ Respond

SpecForm == InitForm /\ [][NextForm]_vars

(***************************************************************************)
(* Section comparison runs: create_section_comparison_dataframe applied to *)
(* a list of records as analyze_landing_pages collects them.               *)
(***************************************************************************)
Padded(name) == <<Space, name, Space>>

AboveLists ==
  {ListV(<<Text("Hero Section")>>), ListV(<<StrV(Padded("Hero Section"))>>),
   ListV(<<NumV("1")>>), Text("Hero Section")}
BelowLists == {ListV(<<Text("FAQ")>>), ListV(<< >>)}

\* a record of the shape of 873-883, and the same with an error key
SectionRecord(platform, above, below) ==
  (K("Platform") :> Text(platform)) @@ (K("URL") :> Text("u")) @@
  (K("Above_Fold_Sections") :> above) @@ (K("Below_Fold_Sections") :> below)

SectionRecords ==
  {SectionRecord(p, a, b) : p \in {"acme", "zeta"}, a \in AboveLists, b \in BelowLists}
    \cup {SectionRecord(p, a, b) @@ (K("error") :> Text("Page load timeout")) :
            p \in {"acme", "zeta"}, a \in AboveLists, b \in BelowLists}

InitSections ==
  /\ pc = "sections"
  /\ upload_folder = {}
  /\ landing_pages = << >>
  /\ cur = 1
  /\ \E n \in 1..MaxPages : all_course_data \in [1..n -> SectionRecords]
  /\ origin = << >>
  /\ phase = << >>
  /\ faults = << >>
  /\ fatal = "none"
  /\ table = NoTable
  /\ reply_parts = NoParts
  /\ extracted = NotRun
  /\ analysis = EmptyDict
  /\ image_in = NoPicture
  /\ prepared = << >>
  /\ request = NoRequest
  /\ final_prompt = << >>
  /\ calls = << >>
  /\ responses = << >>
  /\ WebIdle

\* 1385: section_comparison_df = create_section_comparison_dataframe(...)
CompareSections ==
  /\ pc = "sections"
  /\ IF ComparisonRaises(all_course_data)
       THEN /\ pc' = "raised"
            /\ UNCHANGED section_table
       ELSE /\ pc' = "compared"
            /\ section_table' = create_section_comparison_dataframe(all_course_data)
  /\ UNCHANGED <<upload_folder, landing_pages, cur, all_course_data, origin, phase, faults,
                 fatal, table, mode, clock, session, summary_report, report_calls, config,
                 disk, db, form_vars>>
  /\ UNCHANGED <<reply_vars, image_vars, call_vars>>

NextSections == CompareSections

SpecSections == InitSections /\ [][NextSections]_vars

(***************************************************************************)
(* Concurrent submissions: app.run serves each request in a thread of its  *)
(* own, and every thread reads and writes the one app.config, the one      *)
(* table landing_page_analysis and the one output folder.                  *)
(***************************************************************************)
MaxHandlers == 2
MaxSeconds == 2

Handlers == 1..MaxHandlers

NotStarted == [at |-> "idle", timestamp |-> 0, shown |-> NoResult, sent |-> NoResult]

InitSessions ==
  /\ pc = "serving"
  /\ upload_folder = {}
  /\ landing_pages = << >>
  /\ cur = 1
  /\ all_course_data = << >>
  /\ origin = << >>
  /\ phase = << >>
  /\ faults = << >>
  /\ fatal = "none"
  /\ table = NoTable
  /\ reply_parts = NoParts
  /\ extracted = NotRun
  /\ analysis = EmptyDict
  /\ image_in = NoPicture
  /\ prepared = << >>
  /\ request = NoRequest
  /\ final_prompt = << >>
  /\ calls = << >>
  /\ responses = << >>
  /\ mode = << >>
  /\ clock = 1
  /\ session = 0
  /\ section_table = NoTable
  /\ summary_report = << >>
  /\ report_calls = << >>
  /\ config = NoConfig
  /\ disk = {}
  /\ db = << >>
  /\ form = NoForm
  /\ response = NoResponse
  /\ handlers = [h \in Handlers |-> NotStarted]
  /\ submitted = 0

\* what the steps of the handlers leave alone
SessionFrame ==
  UNCHANGED <<batch_vars, reply_vars, image_vars, call_vars, mode, session, section_table,
              summary_report, report_calls, form, response, submitted>>

\* a second passes
Tick ==
  /\ clock < MaxSeconds
  /\ clock' = clock + 1
  /\ UNCHANGED <<handlers, config, disk, db>>
  /\ SessionFrame

\* 1243-1247: the timestamp of the analysis of handler h, its session id and
\* its session directory
StartSession(h) ==
  /\ handlers[h].at = "idle"
  /\ handlers' = [handlers EXCEPT ![h].at = "analysing", ![h].timestamp = clock]
  /\ disk' = disk \cup {session_dir(clock)}
  /\ UNCHANGED <<clock, config, db>>
  /\ SessionFrame

\* 1375-1407: the tables of handler h, written and saved
SaveTables(h) ==
  /\ handlers[h].at = "analysing"
  /\ handlers' = [handlers EXCEPT ![h].at = "saved"]
  /\ disk' = disk \cup {PathIn(handlers[h].timestamp, CsvName),
                        PathIn(handlers[h].timestamp, SectionCsvName)}
  /\ db' = db \o <<AnalysisResult(handlers[h].timestamp, "csv", CsvName, h),
                   AnalysisResult(handlers[h].timestamp, "section_comparison",
                                  SectionCsvName, h)>>
  /\ config' = [config EXCEPT
                  !.LAST_SECTION_CSV_PATH =
                     Given(PathIn(handlers[h].timestamp, SectionCsvName))]
  /\ UNCHANGED clock
  /\ SessionFrame

\* 1428-1432: the session info of handler h stored in app.config
StoreLast(h) ==
  /\ handlers[h].at = "saved"
  /\ handlers' = [handlers EXCEPT ![h].at = "stored"]
  /\ StoreSession(handlers[h].timestamp, None)
  /\ UNCHANGED <<clock, disk, db>>
  /\ SessionFrame

\* 1511-1514: index reads the session id back from app.config and loads the
\* table of that session for the results page
ReadBack(h) ==
  /\ handlers[h].at = "stored"
  /\ handlers' = [handlers EXCEPT
                    ![h].at = "shown",
                    ![h].shown = get_analysis_result_from_db(db, config.LAST_SESSION_ID, "csv")]
  /\ UNCHANGED <<clock, config, disk, db>>
  /\ SessionFrame

\* download_csv (1583-1603), asked from the results page of handler h
DownloadCsv(h) ==
  /\ handlers[h].at = "shown"
  /\ handlers' = [handlers EXCEPT
                    ![h].at = "downloaded",
                    ![h].sent = get_analysis_result_from_db(db, config.LAST_SESSION_ID, "csv")]
  /\ UNCHANGED <<clock, config, disk, db>>
  /\ SessionFrame

NextSessions ==
  \/ Tick
  \/ \E h \in Handlers : StartSession(h)
  \/ \E h \in Handlers : SaveTables(h)
  \/ \E h \in Handlers : StoreLast(h)
  \/ \E h \in Handlers : ReadBack(h)
  \/ \E h \in Handlers : DownloadCsv(h)

SpecSessions == InitSessions /\ [][NextSessions]_vars

(***************************************************************************)
(* Extraction runs: one reply, _extract_json applied to it, then the       *)
(* pipeline of get_multimodal_analysis_from_gemini applied to it.          *)
(***************************************************************************)
reply_text == Assembled(reply_parts)

InitReply ==
  /\ pc = "reply"
  /\ upload_folder = {}
  /\ \E u \in Urls : landing_pages = <<LandingPage(u, "client", {})>>
  /\ cur = 1
  /\ all_course_data = << >>
  /\ origin = << >>
  /\ phase = <<"Analyzing">>
  /\ faults = <<{}>>
  /\ fatal = "none"
  /\ table = NoTable
  /\ reply_parts \in ReplyParts
  /\ extracted = NotRun
  /\ analysis = EmptyDict
  /\ image_in = NoPicture
  /\ prepared = << >>
  /\ request = NoRequest
  /\ final_prompt = << >>
  /\ calls = << >>
  /\ responses = << >>
  /\ WebIdle

\* _extract_json(response.text)
RunExtract ==
  /\ pc = "reply"
  /\ extracted' = ExtractJson(reply_text)
  /\ pc' = "extracted"
  /\ UNCHANGED <<table, upload_folder, landing_pages, cur, all_course_data, origin, phase,
                 faults, fatal, reply_parts, analysis, image_in, prepared>>
  /\ UNCHANGED <<call_vars, web_vars>>

\* get_multimodal_analysis_from_gemini with the reply as the model's answer
RunAnalysis ==
  /\ pc = "extracted"
  /\ \E call2 \in RetryCalls :
       analysis' = GetAnalysis(Returned(<< >>), Returned(reply_text), call2,
                               landing_pages[1].name, landing_pages[1].url)
  /\ pc' = "analyzed"
  /\ UNCHANGED <<table, upload_folder, landing_pages, cur, all_course_data, origin, phase,
                 faults, fatal, reply_parts, extracted, image_in, prepared>>
  /\ UNCHANGED <<call_vars, web_vars>>

NextReply == RunExtract \/ RunAnalysis

SpecReply == InitReply /\ [][NextReply]_vars

(***************************************************************************)
(* Normalization runs: _prepare_image applied to an image, then to its own *)
(* result.                                                                 *)
(***************************************************************************)
InitImage ==
  /\ pc = "image"
  /\ upload_folder = {}
  /\ landing_pages = << >>
  /\ cur = 1
  /\ all_course_data = << >>
  /\ origin = << >>
  /\ phase = << >>
  /\ faults = << >>
  /\ fatal = "none"
  /\ table = NoTable
  /\ reply_parts = NoParts
  /\ extracted = NotRun
  /\ analysis = EmptyDict
  /\ image_in \in Pictures
  /\ prepared = << >>
  /\ request = NoRequest
  /\ final_prompt = << >>
  /\ calls = << >>
  /\ responses = << >>
  /\ WebIdle

\* pil_img = _prepare_image(pil_img)
RunPrepare ==
  /\ pc = "image"
  /\ prepared' = Append(prepared, PrepareImage(IF Len(prepared) = 0 THEN image_in
                                                ELSE prepared[Len(prepared)]))
  /\ pc' = IF Len(prepared) = 0 THEN "image" ELSE "prepared"
  /\ UNCHANGED <<batch_vars_but_pc, reply_vars, image_in, call_vars>>

NextImage == RunPrepare

SpecImage == InitImage /\ [][NextImage]_vars

(***************************************************************************)
(* Analysis runs: get_multimodal_analysis_from_gemini (796-951) step by    *)
(* step for one request, with its prompt and its calls of the model.       *)
(***************************************************************************)
InitCall ==
  /\ pc = "open"
  /\ upload_folder = {}
  /\ landing_pages = <<LandingPage(UrlShop, "client", {})>>
  /\ cur = 1
  /\ all_course_data = << >>
  /\ origin = << >>
  /\ phase = <<"Analyzing">>
  /\ faults = <<{}>>
  /\ fatal = "none"
  /\ table = NoTable
  /\ reply_parts = NoParts
  /\ extracted = NotRun
  /\ analysis = EmptyDict
  /\ image_in = NoPicture
  /\ prepared = << >>
  /\ request \in Requests
  /\ final_prompt = << >>
  /\ calls = << >>
  /\ responses = << >>
  /\ WebIdle

provider_name == landing_pages[1].name
url == landing_pages[1].url

\* the function returns the record
Return(rec) ==
  /\ analysis' = rec
  /\ pc' = "returned"

\* 929-951: the handler of whatever was raised
ReturnApiError(outcome) ==
  Return(ApiErrorRecord(provider_name, url, outcome.etype, outcome.err))

\* 800: Image.open and _prepare_image
OpenImage ==
  /\ pc = "open"
  /\ \E image \in ImageOpens :
       IF image.raised THEN ReturnApiError(image)
       ELSE pc' = "prompt" /\ UNCHANGED analysis
  /\ UNCHANGED <<batch_vars_but_pc, reply_parts, extracted, image_vars, call_vars>>

\* 802-826: the prompt
BuildPrompt ==
  /\ pc = "prompt"
  /\ IF FinalPrompt(request.page_content, provider_name, url, request.prompt_override,
                    request.structured_prompt_override).raised
       THEN /\ ReturnApiError(FinalPrompt(request.page_content, provider_name, url,
                                          request.prompt_override,
                                          request.structured_prompt_override))
            /\ UNCHANGED final_prompt
       ELSE /\ final_prompt' = FinalPrompt(request.page_content, provider_name, url,
                                           request.prompt_override,
                                           request.structured_prompt_override).text
            /\ pc' = "call"
            /\ UNCHANGED analysis
  /\ UNCHANGED <<batch_vars_but_pc, reply_parts, extracted, image_vars, request, calls,
                 responses>>

\* one generate_content call and what follows from its outcome
Call(with_image, outcome, then) ==
  /\ calls' = Append(calls, [prompt |-> final_prompt, image |-> with_image])
  /\ responses' = Append(responses, outcome)
  /\ IF outcome.raised THEN ReturnApiError(outcome)
     ELSE pc' = then /\ UNCHANGED analysis

\* 829-831: the call with the prompt and the image
CallWithImage ==
  /\ pc = "call"
  /\ \E outcome \in ModelCalls :
       Call(TRUE, outcome, IF IsBlank(outcome.text) THEN "retry" ELSE "parse")
  /\ UNCHANGED <<batch_vars_but_pc, reply_parts, extracted, image_vars, request, final_prompt>>

\* a retry that sends the image again
RetryWithoutImage_WithImage ==
  /\ pc = "retry"
  /\ \E outcome \in RetryCalls : Call(TRUE, outcome, "parse")
  /\ UNCHANGED <<batch_vars_but_pc, reply_parts, extracted, image_vars, request, final_prompt>>

\* 833: the retry with the prompt alone
RetryWithoutImage ==
  /\ pc = "retry"
  /\ \E outcome \in RetryCalls : Call(FALSE, outcome, "parse")
  /\ UNCHANGED <<batch_vars_but_pc, reply_parts, extracted, image_vars, request, final_prompt>>

\* 835-927: from the last reply to the record
ParseReply ==
  /\ pc = "parse"
  /\ Return(RecordFromReply(responses[Len(responses)].text, provider_name, url))
  /\ UNCHANGED <<batch_vars_but_pc, reply_parts, extracted, image_vars, call_vars>>

NextCall == OpenImage \/ BuildPrompt \/ CallWithImage \/ RetryWithoutImage \/ ParseReply

SpecCall == InitCall /\ [][NextCall]_vars

(***************************************************************************)
(* Properties.                                                             *)
(***************************************************************************)
Rows == 1..Len(all_course_data)
RowOf(i) == {k \in Rows : origin[k] = i}
Finished == pc = "done"
Extracting == pc \in {"extracted", "analyzed"}
Platform(rec) == rec[K("Platform")]
Url(rec) == rec[K("URL")]

\* C1: every record built for a request has Platform equal to the request's
\* name and URL equal to the request's url, on every path and whatever the
\* model's reply said about these two keys
C1_Identity ==
  \A k \in Rows :
    origin[k] # 0 =>
      /\ K("Platform") \in DOMAIN all_course_data[k]
      /\ K("URL") \in DOMAIN all_course_data[k]
      /\ Platform(all_course_data[k]) = StrV(landing_pages[origin[k]].name)
      /\ Url(all_course_data[k]) = StrV(landing_pages[origin[k]].url)

\* a record parsed from the reply whose own Platform was "w" and URL was 1
C1_Witness ==
  \E k \in Rows :
    /\ origin[k] # 0
    /\ ~HasError(all_course_data[k])
    /\ K("a") \in DOMAIN all_course_data[k]
    /\ Platform(all_course_data[k]) = StrV(landing_pages[origin[k]].name)
    /\ landing_pages[origin[k]].name # <<"w">>

\* C2: when the browser was set up, the finished table has exactly one row
\* per request and row i is the record of request i, whatever pages failed
C2_TotalCoverage ==
  (Finished /\ fatal # "launch") =>
    /\ Len(all_course_data) = N
    /\ \A k \in Rows : origin[k] = k

\* C3: an error raised while a page is processed becomes a failure record of
\* that page, and every request after it still gets its record
C3_PageErrorsContained ==
  Finished =>
    \A i \in 1..N :
      faults[i] # {} =>
        /\ \E k \in RowOf(i) : HasError(all_course_data[k])
        /\ \A j \in (i + 1)..N : RowOf(j) # {}

SystemErrorRows == {k \in Rows : Platform(all_course_data[k]) = Text("SYSTEM_ERROR")}

\* C4: when the browser setup fails the run still ends with a table, made of
\* one SYSTEM_ERROR record with an error field; no table ever holds two
\* SYSTEM_ERROR records
C4_SetupFailure ==
  /\ fatal = "launch" =>
       /\ pc \in {"assemble", "report", "done"}
       /\ Len(all_course_data) = 1
       /\ Platform(all_course_data[1]) = Text("SYSTEM_ERROR")
       /\ HasError(all_course_data[1])
  /\ Cardinality(SystemErrorRows) <= 1

\* the run that ended after a failed browser launch
C4_Witness == fatal = "launch" /\ Finished /\ Len(all_course_data) = 1

\* C5: every row has a Platform and a URL, both non-empty
C5_PlatformUrlPopulated ==
  \A k \in Rows :
    /\ K("Platform") \in DOMAIN all_course_data[k]
    /\ K("URL") \in DOMAIN all_course_data[k]
    /\ Len(Platform(all_course_data[k]).v) > 0
    /\ Len(Url(all_course_data[k]).v) > 0

ScanCandidates == FindAllBalanced(reply_text, 1)
Parses(text) == JsonLoads(text).ok
NoCandidateParses == \A i \in 1..Len(ScanCandidates) : ~Parses(ScanCandidates[i])

\* C6: the strategies are tried in the order fenced block, bracket span,
\* balanced-brace scan, key-value reconstruction; the result of a strategy is
\* returned only if the earlier ones failed, and the scan returns its first
\* candidate in text order that parses
C6_StrategyOrder ==
  Extracting =>
    /\ extracted.via \in {"fenced", "bracket", "scan", "keyvalue", "none"}
    /\ extracted.ok <=> extracted.via # "none"
    /\ extracted.via = "fenced" =>
         /\ FencedStrategy(reply_text).ok
         /\ extracted.val = FencedStrategy(reply_text).val
    /\ extracted.via = "bracket" =>
         /\ ~FencedStrategy(reply_text).ok
         /\ BracketStrategy(reply_text).ok
         /\ extracted.val = BracketStrategy(reply_text).val
    /\ extracted.via = "scan" =>
         /\ ~FencedStrategy(reply_text).ok
         /\ ~BracketStrategy(reply_text).ok
         /\ \E i \in 1..Len(ScanCandidates) :
              /\ Parses(ScanCandidates[i])
              /\ extracted.val = JsonLoads(ScanCandidates[i]).val
              /\ \A j \in 1..(i - 1) : ~Parses(ScanCandidates[j])
    /\ extracted.via = "keyvalue" =>
         /\ ~FencedStrategy(reply_text).ok
         /\ ~BracketStrategy(reply_text).ok
         /\ NoCandidateParses
         /\ KeyValueStrategy(reply_text).ok
         /\ extracted.val = KeyValueStrategy(reply_text).val
    /\ extracted.via = "none" =>
         /\ ~FencedStrategy(reply_text).ok
         /\ ~BracketStrategy(reply_text).ok
         /\ NoCandidateParses
         /\ ~KeyValueStrategy(reply_text).ok

\* the scan answered, after a candidate that does not parse and before a
\* later one that does; the fenced block matched but did not parse
C6_Witness ==
  /\ Extracting
  /\ extracted.via = "scan"
  /\ FencedSearch(reply_text, 1).found
  /\ \E i, j, k \in 1..Len(ScanCandidates) :
       /\ i < j /\ j < k
       /\ ~Parses(ScanCandidates[i])
       /\ Parses(ScanCandidates[j])
       /\ Parses(ScanCandidates[k])

BodyIsObject == Parses(reply_parts.body) /\ JsonLoads(reply_parts.body).val.t = "dict"

\* C7: a reply with a json fence around a valid object, with prose before and
\* after, is extracted by the fenced-block strategy as exactly that object
C7_FencedReply ==
  (/\ Extracting
   /\ reply_parts.opener = <<Fence, JsonTag, Newline>>
   /\ reply_parts.closer = <<Newline, Fence>>
   /\ BodyIsObject) =>
    /\ extracted.ok
    /\ extracted.via = "fenced"
    /\ extracted.val = JsonLoads(reply_parts.body).val

\* C8: a reply without a fence made of prose, one valid object and prose, with
\* no brace in the prose, is extracted by the bracket-span strategy as exactly
\* that object
C8_BracketReply ==
  (/\ Extracting
   /\ reply_parts.opener = << >>
   /\ reply_parts.closer = << >>
   /\ NextBrace(reply_parts.before, 1) = 0
   /\ NextBrace(reply_parts.after, 1) = 0
   /\ FindFrom(reply_text, Fence, 1) = 0
   /\ BodyIsObject) =>
    /\ extracted.ok
    /\ extracted.via = "bracket"
    /\ extracted.val = JsonLoads(reply_parts.body).val

\* a nested object between two pieces of prose, found by the bracket span
C8_Witness ==
  /\ Extracting
  /\ reply_parts.before = <<"w", Space>>
  /\ reply_parts.opener = << >>
  /\ reply_parts.body = BodyNested
  /\ reply_parts.closer = << >>
  /\ reply_parts.after = <<Space, "w">>
  /\ extracted.via = "bracket"

\* C9: when no JSON can be recovered from the reply, the record's error field
\* contains the snippet of the reply, and the record keeps the request's
\* name and url
C9_FailureSnippet ==
  (pc = "analyzed" /\ ~IsBlank(reply_text) /\ ~extracted.ok) =>
    /\ HasError(analysis)
    /\ Contains(analysis[K("error")].v, Snippet(reply_text))
    /\ Platform(analysis) = StrV(landing_pages[1].name)
    /\ Url(analysis) = StrV(landing_pages[1].url)

\* C10: a reply that parses as JSON but not as an object does not end the
\* search: when the recovery strategies find an object in it, the record is
\* the success record built from that object
C10_NonObjectNotFinal ==
  (/\ pc = "analyzed"
   /\ Parses(CleanResponse(reply_text))
   /\ JsonLoads(CleanResponse(reply_text)).val.t # "dict"
   /\ extracted.ok) =>
    /\ ~HasError(analysis)
    /\ analysis = SetIdentity(extracted.val.v, landing_pages[1].name, landing_pages[1].url)

\* C11: when capture and model call succeed and the reply is a JSON object,
\* bare or inside a json fence, the record is the model's object with Platform
\* and URL overwritten by the request's name and url, and with no other key
\* added, removed or changed
C11_RowIsModelObject ==
  (/\ pc = "analyzed"
   /\ reply_parts.before = << >>
   /\ reply_parts.after = << >>
   /\ \/ reply_parts.opener = << >> /\ reply_parts.closer = << >>
      \/ reply_parts.opener = <<Fence, JsonTag, Newline>> /\ reply_parts.closer = <<Newline, Fence>>
   /\ BodyIsObject)
  => analysis = SetIdentity(JsonLoads(reply_parts.body).val.v,
                            landing_pages[1].name, landing_pages[1].url)

\* C12: the columns of the assembled table are the union of the keys of all
\* records; a row holds its record's value under each key the record has and
\* an empty value under each column the record lacks
C12_UnionColumns ==
  Finished =>
    /\ table.columns = UNION {DOMAIN all_course_data[k] : k \in Rows}
    /\ DOMAIN table.rows = Rows
    /\ \A k \in Rows : \A col \in table.columns :
         IF col \in DOMAIN all_course_data[k]
           THEN table.rows[k][col] = all_course_data[k][col]
           ELSE CsvEmpty(table.rows[k][col])

\* a finished table of two records with different keys: the first lacks a
\* column of the second and the second lacks a column of the first
C12_Witness ==
  /\ Finished
  /\ Len(all_course_data) = 2
  /\ \E col \in table.columns :
       col \notin DOMAIN all_course_data[1] /\ table.rows[1][col] = NaN
  /\ \E col \in table.columns :
       col \notin DOMAIN all_course_data[2] /\ table.rows[2][col] = NaN

\* C13: an image whose width and height are both at most MAX_DIM comes out of
\* _prepare_image with the same width and height, and _prepare_image applied
\* to its own result changes neither width nor height
C13_WithinBoundUnchanged ==
  /\ (Len(prepared) >= 1 /\ image_in.w <= MAX_DIM /\ image_in.h <= MAX_DIM)
       => (prepared[1].w = image_in.w /\ prepared[1].h = image_in.h)
  /\ Len(prepared) = 2
       => (prepared[2].w = prepared[1].w /\ prepared[2].h = prepared[1].h)

\* width : height of the result equals that of the original up to the rounding
\* of one side to a whole number of pixels
SameRatio(original, result) ==
  Abs(result.w * original.h - result.h * original.w) < Max2(original.w, original.h)

\* C14: an image with width or height above MAX_DIM (also one that is only
\* too wide) comes out with width and height at most MAX_DIM and with the
\* width : height ratio of the original, within integer rounding
C14_OversizedBounded ==
  (Len(prepared) >= 1 /\ Max2(image_in.w, image_in.h) > MAX_DIM)
    => /\ prepared[1].w <= MAX_DIM
       /\ prepared[1].h <= MAX_DIM
       /\ SameRatio(image_in, prepared[1])

Calls == 1..Len(calls)
Occurs(tok, text) == \E j \in 1..Len(text) : text[j] = tok

\* the prompt holds the first TEXT_BUDGET characters of a longer page text
\* and none of the later ones, and the whole of a shorter page text
HoldsBudgetedText(prompt, page_content) ==
  IF Len(page_content) > TEXT_BUDGET
    THEN /\ Contains(prompt, Take(page_content, TEXT_BUDGET))
         /\ \A i \in (TEXT_BUDGET + 1)..Len(page_content) : ~Occurs(page_content[i], prompt)
    ELSE Contains(prompt, page_content)

\* C15: the prompt sent to the model holds exactly the first 5000 characters
\* of a page text longer than 5000 characters and none of the characters after
\* them; a shorter page text is in the prompt whole
C15_TextBudget ==
  \A c \in Calls : HoldsBudgetedText(calls[c].prompt, request.page_content)

\* the structured template in use: the override when usable, else the default
TemplateInUse ==
  IF Usable(request.structured_prompt_override)
    THEN request.structured_prompt_override.text
    ELSE DEFAULT_STRUCTURED_PROMPT_TEMPLATE

\* C15 as amended: whenever the structured template in use holds the field
\* text_content_section, as the default template does, the prompt sent holds
\* the first 5000 characters of a longer page text and none of the later
\* ones, and a shorter page text whole
C15_TextBudgetWithField ==
  \A c \in Calls :
    Occurs(FieldText, TemplateInUse)
      => HoldsBudgetedText(calls[c].prompt, request.page_content)

\* a call made for a page text of more than 5000 characters under a template
\* with the field: the prompt holds the first 5000 of them
C15_Witness ==
  /\ Len(calls) >= 1
  /\ Len(request.page_content) > TEXT_BUDGET
  /\ Occurs(FieldText, TemplateInUse)
  /\ Contains(calls[1].prompt, Take(request.page_content, TEXT_BUDGET))
  /\ ~Occurs(request.page_content[TEXT_BUDGET + 1], calls[1].prompt)

\* C16: for an empty page text the prompt sent holds no text content block:
\* neither the heading of the block nor a statement standing in for the text
C16_NoBlockForEmptyText ==
  \A c \in Calls :
    Len(request.page_content) = 0
      => /\ ~Occurs("Text Content Preview (first 5000 chars):", calls[c].prompt)
         /\ ~Occurs("No text content available", calls[c].prompt)

\* C17: when a prompt override is supplied, the string sent to the model is
\* that override and nothing else: no field of it is substituted, nothing is
\* put before or after it
C17_OverrideVerbatim ==
  \A c \in Calls :
    Usable(request.structured_prompt_override)
      => calls[c].prompt = request.structured_prompt_override.text

\* C18: the model is called at most twice for a page; the first call carries
\* the image; a second call is made only after a blank first reply, with the
\* same prompt and no image; when the second reply is blank too the function
\* returns a failure record and no third call is made
C18_AtMostTwoCalls ==
  /\ Len(calls) <= 2
  /\ Len(responses) = Len(calls)
  /\ Len(calls) >= 1 => calls[1].image
  /\ Len(calls) = 2
       => /\ ~responses[1].raised
          /\ IsBlank(responses[1].text)
          /\ ~calls[2].image
          /\ calls[2].prompt = calls[1].prompt
  /\ (pc = "returned" /\ Len(calls) = 2 /\ ~responses[2].raised /\ IsBlank(responses[2].text))
       => HasError(analysis)

\* two blank replies: two calls were made and the record is a failure record
C18_Witness ==
  /\ pc = "returned"
  /\ Len(calls) = 2
  /\ ~responses[2].raised
  /\ IsBlank(responses[2].text)
  /\ HasError(analysis)

Terminal == {"Done", "Failed"}
Allowed ==
  {<<"Pending", "Capturing">>, <<"Capturing", "Analyzing">>, <<"Capturing", "Failed">>,
   <<"Analyzing", "Done">>, <<"Analyzing", "Failed">>}

\* the records a step appends for request i
AppendedFor(i) ==
  {k \in (Len(all_course_data) + 1)..Len(all_course_data') : origin'[k] = i}

\* C19: a request changes state only along Pending -> Capturing -> Analyzing
\* -> Done, Pending -> Capturing -> Failed or Pending -> Capturing ->
\* Analyzing -> Failed; the step in which it enters Done or Failed appends
\* exactly one record for it, and no other step appends a record for it
C19_Lifecycle ==
  [][\A i \in 1..N :
       /\ phase'[i] # phase[i] => <<phase[i], phase'[i]>> \in Allowed
       /\ Cardinality(AppendedFor(i)) =
            (IF phase'[i] # phase[i] /\ phase'[i] \in Terminal THEN 1 ELSE 0)]_vars

\* a finished batch with a request that ended Done and one that ended Failed,
\* each with its one record
C19_Witness ==
  /\ Finished
  /\ \E i \in 1..N : phase[i] = "Done" /\ Cardinality(RowOf(i)) = 1
  /\ \E j \in 1..N : phase[j] = "Failed" /\ Cardinality(RowOf(j)) = 1

\* C20: when the run ends (the browser setup having succeeded) every request
\* of the batch has been consumed, that is has reached Done or Failed, none
\* is left Pending, and none has been consumed more than once
C20_AllConsumedOnce ==
  (Finished /\ fatal # "launch")
    => \A i \in 1..N : phase[i] \in Terminal /\ Cardinality(RowOf(i)) = 1

AllStrategiesFail(text) ==
  /\ ~FencedStrategy(text).ok
  /\ ~BracketStrategy(text).ok
  /\ ~ScanStrategy(text).ok
  /\ ~KeyValueStrategy(text).ok

\* the reply trimmed, its newlines turned into spaces
TrimmedOnOneLine(text) ==
  [i \in 1..Len(Strip(text)) |-> IF Strip(text)[i] = Newline THEN Space ELSE Strip(text)[i]]

\* snip is whole, or is the prefix of whole that is SNIPPET_LEN characters long
IsSnippetOf(snip, whole) ==
  /\ Len(snip) <= Len(whole)
  /\ snip = SubSeq(whole, 1, Len(snip))
  /\ CharLen(snip) <= SNIPPET_LEN
  /\ snip # whole => CharLen(snip) = SNIPPET_LEN

\* C21: when the four strategies all fail, _extract_json raises (it returns
\* no value) and the message ends with a snippet of at most 500 characters:
\* the prefix of the trimmed reply with its newlines replaced by spaces
C21_RaisesWithSnippet ==
  (Extracting /\ AllStrategiesFail(reply_text)) =>
    /\ ~extracted.ok
    /\ extracted.val = NoValue
    /\ Len(extracted.msg) >= 1
    /\ Head(extracted.msg) = "No valid JSON found in model response. Response snippet: "
    /\ IsSnippetOf(Tail(extracted.msg), TrimmedOnOneLine(reply_text))

\* a reply of more than 500 characters with a newline among the first 500, on
\* which every strategy failed: the snippet is 500 characters long
C21_Witness ==
  /\ Extracting
  /\ ~extracted.ok
  /\ reply_parts.body = BodyLongProse
  /\ CharLen(Strip(reply_text)) > SNIPPET_LEN
  /\ CharLen(Tail(extracted.msg)) = SNIPPET_LEN
  /\ ~Occurs(Newline, Tail(extracted.msg))

CaptureStages == {"manual_file", "read", "timeout", "navigation", "decode"}

\* capture, model call or parse: the kinds of stage that failed for request i
FailedStages(i) ==
  {IF stage \in CaptureStages THEN "capture" ELSE stage :
     stage \in faults[i] \cap (CaptureStages \cup {"model_call", "parse"})}

\* C22: the error value alone tells the stage that failed: no two failure
\* records of requests that failed in different stages (capture, model call,
\* parse) have the same error value
C22_ErrorTellsStage ==
  \A k, l \in Rows :
    (/\ origin[k] # 0 /\ origin[l] # 0
     /\ HasError(all_course_data[k]) /\ HasError(all_course_data[l])
     /\ FailedStages(origin[k]) # FailedStages(origin[l]))
    => all_course_data[k][K("error")] # all_course_data[l][K("error")]

\* the reply gave an object: json.loads of the cleaned reply did, or the
\* fallback extraction did after json.loads failed
ReplyGaveObject(text) ==
  \/ Parses(CleanResponse(text)) /\ JsonLoads(CleanResponse(text)).val.t = "dict"
  \/ ~Parses(CleanResponse(text)) /\ ExtractJson(text).ok /\ ExtractJson(text).val.t = "dict"

\* C23: the record of a page whose capture and model call succeeded has the
\* error key exactly when no object could be extracted from the reply; a
\* reply that parses never gives a record with an error key, also when the
\* model's own object has a field named error
C23_ErrorKeyIffFailed ==
  (pc = "analyzed" /\ ~IsBlank(reply_text))
    => (HasError(analysis) <=> ~ReplyGaveObject(reply_text))

C25_SectionsTyped ==
  (pc = "analyzed" /\ ~HasError(analysis)) =>
    /\ GetIs(analysis, K("Above_Fold_Sections"), "list")
    /\ GetIs(analysis, K("Below_Fold_Sections"), "list")
    /\ GetIs(analysis, K("Section_Details"), "dict")

\* the requests of the running submission whose processing has begun
Begun == {i \in 1..Len(landing_pages) : mode[i] # "none"}

\* C26: a request is processed in manual mode exactly when its type is
\* 'manual' or the file <name>_manual.png is in the upload folder when its
\* submission is handled; no step removes a file from the upload folder, so
\* a file uploaded by one submission puts the later requests of that name
\* in manual mode whatever their type and whatever the later form uploads
C26_ManualMode ==
  /\ [](\A i \in Begun :
          mode[i] = "manual" <=>
            \/ landing_pages[i].type = "manual"
            \/ ManualFile(landing_pages[i].name) \in upload_folder)
  /\ [][upload_folder \subseteq upload_folder']_vars

\* the second submission uploads nothing and designates the page as client;
\* the file left by the first submission puts it in manual mode
C26_Witness ==
  /\ submitted = 2
  /\ form.files = {}
  /\ \E i \in Begun :
       /\ landing_pages[i].type = "client"
       /\ mode[i] = "manual"
       /\ ManualFile(landing_pages[i].name) \in upload_folder

\* C27: whenever the form handler starts an analysis, the landing pages it
\* passes hold a request of type 'client', and the client name of the report
\* is the name of such a request
C27_ClientDesignated ==
  pc \notin {"idle"} =>
    \E i \in 1..Len(landing_pages) :
      /\ landing_pages[i].type = "client"
      /\ ClientName(landing_pages) = landing_pages[i].name

\* the index of the row of the section comparison with a label
MarkerRow(label) ==
  CHOOSE i \in 1..Len(section_table.rows) : section_table.rows[i][K("Section")] = Text(label)

\* the rows of the sections above and below the fold
AboveRows == (MarkerRow("=== ABOVE THE FOLD ===") + 1)..(MarkerRow("=== BELOW THE FOLD ===") - 1)
BelowRows == (MarkerRow("=== BELOW THE FOLD ===") + 1)..(MarkerRow("=== SECTION COUNTS ===") - 1)

\* the mark a record should get in the row i for its list under key
OwnMark(rec, key, i) ==
  IF section_table.rows[i][K("Section")].v \in NormalizedSections(rec, key)
    THEN Text(CheckMark) ELSE Text(CrossMark)

\* C28: in the section comparison, each record without error has a column
\* of its own, and in every section row that column holds the check mark
\* exactly when the record's own list for that fold, trimmed as the row
\* labels are, contains the section of the row, the cross mark otherwise
C28_OwnMarks ==
  (pc = "compared" /\ Len(valid_providers(all_course_data)) > 0) =>
    /\ Cardinality(section_table.columns \ {K("Section")})
         = Len(valid_providers(all_course_data))
    /\ \A k \in 1..Len(valid_providers(all_course_data)) :
         LET rec == valid_providers(all_course_data)[k]
         IN /\ \A i \in AboveRows :
                 section_table.rows[i][rec[K("Platform")].v]
                   = OwnMark(rec, K("Above_Fold_Sections"), i)
            /\ \A i \in BelowRows :
                 section_table.rows[i][rec[K("Platform")].v]
                   = OwnMark(rec, K("Below_Fold_Sections"), i)

\* download_report (1627-1647): the report row of the last session, else
\* the file of the last report path, else the 404 answer
download_report ==
  IF get_analysis_result_from_db(db, config.LAST_SESSION_ID, "report") # NoResult
    THEN [status |-> "sent", source |-> "database",
          owner |-> get_analysis_result_from_db(db, config.LAST_SESSION_ID, "report").owner]
  ELSE IF config.LAST_REPORT_PATH.given /\ config.LAST_REPORT_PATH.text \in disk
    THEN [status |-> "sent", source |-> "file", owner |-> 0]
  ELSE [status |-> "not found", source |-> "none", owner |-> 0]

\* a row of the table whose error is null
ErrorFree(row) == K("error") \notin DOMAIN row \/ row[K("error")] = NaN

\* C29: the report call is made only when a row of the table has no error,
\* and the table it is given holds only such rows; when every row failed
\* there is no call, the summary is the fixed text, the last report path is
\* cleared and the report download serves nothing of an earlier session
C29_ReportOnlyOnSuccess ==
  /\ \A c \in 1..Len(report_calls) :
       /\ \E k \in 1..Len(table.rows) : ErrorFree(table.rows[k])
       /\ Len(report_calls[c].course_data_df.rows) > 0
       /\ \A k \in 1..Len(report_calls[c].course_data_df.rows) :
            ErrorFree(report_calls[c].course_data_df.rows[k])
  /\ (pc = "done" /\ \A k \in 1..Len(table.rows) : ~ErrorFree(table.rows[k])) =>
       /\ report_calls = << >>
       /\ summary_report = <<"No successful data collection for report generation.">>
       /\ config.LAST_REPORT_PATH = None
       /\ download_report.status = "not found"

\* the handlers whose results page has been rendered
Shown == {h \in Handlers : handlers[h].at \in {"shown", "downloaded"}}

\* C30: with submissions handled at the same time, or started in the same
\* second, the results page and the download of a submission are those of
\* its own analysis, and no two submissions share a session id or a session
\* directory
C30_OwnSession ==
  pc = "serving" =>
    /\ \A h \in Shown :
         /\ handlers[h].shown.owner = h
         /\ handlers[h].shown.session_id = session_id(handlers[h].timestamp)
    /\ \A h \in Handlers : handlers[h].at = "downloaded" => handlers[h].sent.owner = h
    /\ \A h, g \in Handlers :
         (h # g /\ handlers[h].at # "idle" /\ handlers[g].at # "idle") =>
           /\ session_id(handlers[h].timestamp) # session_id(handlers[g].timestamp)
           /\ session_dir(handlers[h].timestamp) # session_dir(handlers[g].timestamp)

====
